---- MODULE Spec2Model ----
(***************************************************************************)
(* Notes storage module (apps/ts/src/storage.ts, apps/js/src/storage.js):  *)
(* the localStorage-backed Note Repository (loadNotes, saveNotes,          *)
(* clearNotes) and the Note Query Engine (createNote, toggleNote,          *)
(* searchNotes, sortNotes, filterNotesByStatus, calculateStats).           *)
(*                                                                         *)
(* A JavaScript string is a sequence of one-character strings, so that     *)
(* trimming, case mapping, substring search, JSON encoding and JSON        *)
(* decoding are computed character by character.                           *)
(***************************************************************************)
EXTENDS Integers, Sequences, FiniteSets, TLC

VARIABLES
    store,   \* the localStorage entry 'notes.v1': [has, val]
    log,     \* the console: sequence of [level, msg, cause]
    last,    \* the most recent call of a storage-module function and its outcome
    persisted, \* the array the last successful saveNotes wrote, if still in the store
    notes,   \* the caller's array (heap object) handed to the Query Engine
    now,     \* the clock: milliseconds since EpochBase
    issued,  \* identifiers crypto.randomUUID() has produced so far
    app      \* the App component: its phase and the history of its collection

vars == <<store, log, last, persisted, notes, now, issued, app>>

(***************************************************************************)
(* Bounds of the model.                                                    *)
(***************************************************************************)
MaxNotes == 2      \* longest array handed to the Query Engine
MaxSaved == 2      \* longest array handed to saveNotes
MaxLog == 2        \* console entries written before the run stops
MaxTextLen == 3    \* longest text handed to createNote
MaxQueryLen == 2   \* longest query handed to searchNotes
MaxTicks == 2      \* clock advances observed
MaxUUIDs == 2      \* identifiers the generator can produce
MaxToggles == 2    \* longest chain toggleNote(toggleNote(...))
MaxListLen == 3    \* longest array handed to sortNotes and filterNotesByStatus
MaxStatsLen == 40  \* longest array handed to calculateStats
MaxAdds == 2       \* notes the user adds in App
MaxAppTicks == 1   \* clock advances observed while App runs
ClockStart == 36000000  \* the clock's first reading: 10:00:00.000
TickMs == 3599999       \* the clock advances by 59 min 59.999 s

(***************************************************************************)
(* Characters and strings.                                                 *)
(***************************************************************************)
\* ECMAScript WhiteSpace and LineTerminator code points that occur in the model.
WhiteSpace == {" ", "\t", "\n"}

IsWhiteSpace(c) == c \in WhiteSpace

RECURSIVE TrimStart(_)
TrimStart(s) ==
    IF s = <<>> THEN s
    ELSE IF IsWhiteSpace(Head(s)) THEN TrimStart(Tail(s)) ELSE s

RECURSIVE TrimEnd(_)
TrimEnd(s) ==
    IF s = <<>> THEN s
    ELSE IF IsWhiteSpace(s[Len(s)]) THEN TrimEnd(SubSeq(s, 1, Len(s) - 1)) ELSE s

\* String.prototype.trim
Trim(s) == TrimEnd(TrimStart(s))

\* Unicode lower-case mapping of one character (a sequence: a mapping may
\* produce several characters).
ToLowerChar(c) ==
    CASE c = "A" -> <<"a">>
      [] c = "B" -> <<"b">>
      [] c = "S" -> <<"s">>
      [] OTHER -> <<c>>

\* Unicode upper-case mapping of one character; SpecialCasing maps the
\* sharp s to "SS".
ToUpperChar(c) ==
    CASE c = "a" -> <<"A">>
      [] c = "b" -> <<"B">>
      [] c = "s" -> <<"S">>
      [] c = "ß" -> <<"S", "S">>
      [] OTHER -> <<c>>

RECURSIVE ToLowerCase(_)
ToLowerCase(s) ==
    IF s = <<>> THEN <<>> ELSE ToLowerChar(Head(s)) \o ToLowerCase(Tail(s))

RECURSIVE ToUpperCase(_)
ToUpperCase(s) ==
    IF s = <<>> THEN <<>> ELSE ToUpperChar(Head(s)) \o ToUpperCase(Tail(s))

\* String.prototype.includes
Includes(hay, needle) ==
    \E i \in 0..(Len(hay) - Len(needle)) :
        SubSeq(hay, i + 1, i + Len(needle)) = needle

(***************************************************************************)
(* Decimal digits.                                                         *)
(***************************************************************************)
Digits == <<"0", "1", "2", "3", "4", "5", "6", "7", "8", "9">>

DigitChar(d) == Digits[d + 1]

IsDigit(c) == \E d \in 0..9 : Digits[d + 1] = c

DigitVal(c) == CHOOSE d \in 0..9 : Digits[d + 1] = c

RECURSIVE NatToStr(_)
NatToStr(n) ==
    IF n < 10 THEN <<DigitChar(n)>>
    ELSE NatToStr(n \div 10) \o <<DigitChar(n % 10)>>

RECURSIVE PadStart(_, _)
\* String(n).padStart(w, '0')
PadStart(s, w) == IF Len(s) >= w THEN s ELSE PadStart(<<"0">> \o s, w)

(***************************************************************************)
(* JavaScript values as JSON.parse produces them: a tag and, under a field *)
(* named after the tag, the payload.                                       *)
(***************************************************************************)
JSNull == [t |-> "null"]
JSBool(b) == [t |-> "bool", bool |-> b]
JSNum(n) == [t |-> "num", num |-> n]
JSStr(s) == [t |-> "str", str |-> s]
JSArr(xs) == [t |-> "arr", arr |-> xs]
\* an object: its own properties in insertion order, each [k, v]
JSObj(ps) == [t |-> "obj", obj |-> ps]

(***************************************************************************)
(* JSON.stringify.                                                         *)
(***************************************************************************)
\* EscapeChar with the quotation mark left as it is
EscapeCharKeepsQuote(c) ==
    CASE c = "\\" -> <<"\\", "\\">>
      [] c = "\t" -> <<"\\", "t">>
      [] c = "\n" -> <<"\\", "n">>
      [] OTHER -> <<c>>

\* QuoteJSONString, one character: the quotation mark, the reverse solidus
\* and the control characters are escaped.
EscapeChar(c) ==
    CASE c = "\"" -> <<"\\", "\"">>
      [] c = "\\" -> <<"\\", "\\">>
      [] c = "\t" -> <<"\\", "t">>
      [] c = "\n" -> <<"\\", "n">>
      [] OTHER -> <<c>>

RECURSIVE EscapeAll(_)
EscapeAll(s) ==
    IF s = <<>> THEN <<>> ELSE EscapeChar(Head(s)) \o EscapeAll(Tail(s))

QuoteJSONString(s) == <<"\"">> \o EscapeAll(s) \o <<"\"">>

RECURSIVE JSONStringify(_), StringifyElements(_), StringifyMembers(_)
\* JSON.stringify(value) for the values JSON can hold (numbers are integers).
JSONStringify(x) ==
    CASE x.t = "null" -> <<"n", "u", "l", "l">>
      [] x.t = "bool" ->
            IF x.bool THEN <<"t", "r", "u", "e">> ELSE <<"f", "a", "l", "s", "e">>
      [] x.t = "num" ->
            IF x.num < 0 THEN <<"-">> \o NatToStr(0 - x.num) ELSE NatToStr(x.num)
      [] x.t = "str" -> QuoteJSONString(x.str)
      [] x.t = "arr" -> <<"[">> \o StringifyElements(x.arr) \o <<"]">>
      [] x.t = "obj" -> <<"{">> \o StringifyMembers(x.obj) \o <<"}">>

StringifyElements(xs) ==
    IF xs = <<>> THEN <<>>
    ELSE IF Len(xs) = 1 THEN JSONStringify(xs[1])
    ELSE JSONStringify(Head(xs)) \o <<",">> \o StringifyElements(Tail(xs))

StringifyMembers(ps) ==
    IF ps = <<>> THEN <<>>
    ELSE LET m == QuoteJSONString(Head(ps).k) \o <<":">> \o JSONStringify(Head(ps).v)
         IN IF Len(ps) = 1 THEN m ELSE m \o <<",">> \o StringifyMembers(Tail(ps))

(***************************************************************************)
(* JSON.parse: a recursive-descent parser over positions of the text.      *)
(* A parse step yields [ok |-> FALSE] (SyntaxError) or the value and the   *)
(* position after it.  Numbers are integers; of the escapes, \b and \uXXXX *)
(* do not occur in the model's texts.                                      *)
(***************************************************************************)
JSONWhiteSpace == {" ", "\t", "\n", "\r"}

ControlChars == {"\t", "\n", "\r", "\f"}

SyntaxError == [ok |-> FALSE]

Parsed(x, n) == [ok |-> TRUE, v |-> x, next |-> n]

RECURSIVE SkipWS(_, _)
SkipWS(s, i) ==
    IF i <= Len(s) /\ s[i] \in JSONWhiteSpace THEN SkipWS(s, i + 1) ELSE i

StartsWith(s, i, lit) ==
    i + Len(lit) - 1 <= Len(s) /\ SubSeq(s, i, i + Len(lit) - 1) = lit

\* the character an escape sequence \e stands for, <<>> when \e is no escape
Unescape(e) ==
    CASE e = "\"" -> <<"\"">>
      [] e = "\\" -> <<"\\">>
      [] e = "/" -> <<"/">>
      [] e = "n" -> <<"\n">>
      [] e = "t" -> <<"\t">>
      [] e = "r" -> <<"\r">>
      [] e = "f" -> <<"\f">>
      [] OTHER -> <<>>

RECURSIVE ParseString(_, _, _)
\* the characters of a string literal, from the position after its opening quote
ParseString(s, i, acc) ==
    IF i > Len(s) THEN SyntaxError
    ELSE IF s[i] = "\"" THEN Parsed(acc, i + 1)
    ELSE IF s[i] = "\\" THEN
        IF i + 1 > Len(s) \/ Unescape(s[i + 1]) = <<>> THEN SyntaxError
        ELSE ParseString(s, i + 2, acc \o Unescape(s[i + 1]))
    ELSE IF s[i] \in ControlChars THEN SyntaxError
    ELSE ParseString(s, i + 1, Append(acc, s[i]))

RECURSIVE ParseDigits(_, _, _)
ParseDigits(s, i, acc) ==
    IF i <= Len(s) /\ IsDigit(s[i])
    THEN ParseDigits(s, i + 1, 10 * acc + DigitVal(s[i]))
    ELSE Parsed(acc, i)

\* -? (0 | [1-9][0-9]*)
ParseNumber(s, i) ==
    LET neg == s[i] = "-"
        j == IF neg THEN i + 1 ELSE i
    IN IF j > Len(s) \/ ~IsDigit(s[j]) THEN SyntaxError
       ELSE LET d == IF s[j] = "0" THEN Parsed(0, j + 1) ELSE ParseDigits(s, j, 0)
            IN Parsed(JSNum(IF neg THEN 0 - d.v ELSE d.v), d.next)

\* CreateDataProperty on the object under construction: a repeated key
\* keeps its place and takes the later value.
SetMember(ps, k, x) ==
    IF \E i \in 1..Len(ps) : ps[i].k = k
    THEN [i \in 1..Len(ps) |-> IF ps[i].k = k THEN [k |-> k, v |-> x] ELSE ps[i]]
    ELSE Append(ps, [k |-> k, v |-> x])

RECURSIVE ParseValue(_, _), ParseElements(_, _, _), ParseMembers(_, _, _)
ParseValue(s, i) ==
    LET j == SkipWS(s, i) IN
    IF j > Len(s) THEN SyntaxError
    ELSE IF StartsWith(s, j, <<"n", "u", "l", "l">>) THEN Parsed(JSNull, j + 4)
    ELSE IF StartsWith(s, j, <<"t", "r", "u", "e">>) THEN Parsed(JSBool(TRUE), j + 4)
    ELSE IF StartsWith(s, j, <<"f", "a", "l", "s", "e">>) THEN Parsed(JSBool(FALSE), j + 5)
    ELSE IF s[j] = "\"" THEN
        LET r == ParseString(s, j + 1, <<>>)
        IN IF r.ok THEN Parsed(JSStr(r.v), r.next) ELSE SyntaxError
    ELSE IF s[j] = "[" THEN
        LET k == SkipWS(s, j + 1)
        IN IF k <= Len(s) /\ s[k] = "]" THEN Parsed(JSArr(<<>>), k + 1)
           ELSE ParseElements(s, j + 1, <<>>)
    ELSE IF s[j] = "{" THEN
        LET k == SkipWS(s, j + 1)
        IN IF k <= Len(s) /\ s[k] = "}" THEN Parsed(JSObj(<<>>), k + 1)
           ELSE ParseMembers(s, j + 1, <<>>)
    ELSE IF s[j] = "-" \/ IsDigit(s[j]) THEN ParseNumber(s, j)
    ELSE SyntaxError

ParseElements(s, i, acc) ==
    LET r == ParseValue(s, i) IN
    IF ~r.ok THEN SyntaxError
    ELSE LET k == SkipWS(s, r.next) IN
         IF k > Len(s) THEN SyntaxError
         ELSE IF s[k] = "," THEN ParseElements(s, k + 1, Append(acc, r.v))
         ELSE IF s[k] = "]" THEN Parsed(JSArr(Append(acc, r.v)), k + 1)
         ELSE SyntaxError

ParseMembers(s, i, acc) ==
    LET j == SkipWS(s, i) IN
    IF j > Len(s) \/ s[j] /= "\"" THEN SyntaxError
    ELSE LET key == ParseString(s, j + 1, <<>>) IN
         IF ~key.ok THEN SyntaxError
         ELSE LET c == SkipWS(s, key.next) IN
              IF c > Len(s) \/ s[c] /= ":" THEN SyntaxError
              ELSE LET r == ParseValue(s, c + 1) IN
                   IF ~r.ok THEN SyntaxError
                   ELSE LET k == SkipWS(s, r.next) IN
                        IF k > Len(s) THEN SyntaxError
                        ELSE IF s[k] = ","
                            THEN ParseMembers(s, k + 1, SetMember(acc, key.v, r.v))
                        ELSE IF s[k] = "}"
                            THEN Parsed(JSObj(SetMember(acc, key.v, r.v)), k + 1)
                        ELSE SyntaxError

\* JSON.parse(text): [ok |-> TRUE, v |-> value], or [ok |-> FALSE] when it
\* throws a SyntaxError.
JSONParse(s) ==
    LET r == ParseValue(s, 1) IN
    IF r.ok /\ SkipWS(s, r.next) > Len(s) THEN [ok |-> TRUE, v |-> r.v]
    ELSE [ok |-> FALSE]

(***************************************************************************)
(* The Note entity and its JavaScript object.                              *)
(***************************************************************************)
\* type Note = { id; text; done; createdAt }
MkNote(id, text, done, createdAt) ==
    [id |-> id, text |-> text, done |-> done, createdAt |-> createdAt]

KeyId == <<"i", "d">>
KeyText == <<"t", "e", "x", "t">>
KeyDone == <<"d", "o", "n", "e">>
KeyCreatedAt == <<"c", "r", "e", "a", "t", "e", "d", "A", "t">>

\* the object a Note is at run time: its four properties in creation order
NoteToJS(n) ==
    JSObj(<< [k |-> KeyId, v |-> JSStr(n.id)],
             [k |-> KeyText, v |-> JSStr(n.text)],
             [k |-> KeyDone, v |-> JSBool(n.done)],
             [k |-> KeyCreatedAt, v |-> JSStr(n.createdAt)] >>)

NotesToJS(ns) == JSArr([i \in 1..Len(ns) |-> NoteToJS(ns[i])])

\* the value of property k of object x, JSNull standing for undefined
GetMember(x, k) ==
    IF \E i \in 1..Len(x.obj) : x.obj[i].k = k
    THEN x.obj[CHOOSE i \in 1..Len(x.obj) : x.obj[i].k = k].v
    ELSE JSNull

\* x has the shape of a Note: exactly the four properties, of the Note's types
IsNoteJS(x) ==
    /\ x.t = "obj"
    /\ Len(x.obj) = 4
    /\ {x.obj[i].k : i \in 1..4} = {KeyId, KeyText, KeyDone, KeyCreatedAt}
    /\ GetMember(x, KeyId).t = "str"
    /\ GetMember(x, KeyText).t = "str"
    /\ GetMember(x, KeyDone).t = "bool"
    /\ GetMember(x, KeyCreatedAt).t = "str"

\* x is a Note[]
IsNoteSeqJS(x) == x.t = "arr" /\ \A i \in 1..Len(x.arr) : IsNoteJS(x.arr[i])

(***************************************************************************)
(* Date: an instant is a number of milliseconds since EpochBase,           *)
(* 2023-01-01T00:00:00.000Z, within that day.                              *)
(***************************************************************************)
DatePrefix == <<"2", "0", "2", "3", "-", "0", "1", "-", "0", "1", "T">>

Pad2(n) == PadStart(NatToStr(n), 2)
Pad3(n) == PadStart(NatToStr(n), 3)

\* Date.prototype.toISOString: YYYY-MM-DDTHH:mm:ss.sssZ
ToISOString(t) ==
    DatePrefix
        \o Pad2(t \div 3600000) \o <<":">>
        \o Pad2((t % 3600000) \div 60000) \o <<":">>
        \o Pad2((t % 60000) \div 1000) \o <<".">>
        \o Pad3(t % 1000) \o <<"Z">>

(***************************************************************************)
(* localStorage: the one entry the module uses, under STORAGE_KEY.         *)
(* The entry is [has |-> FALSE] when the key is absent (getItem yields     *)
(* null) and [has |-> TRUE, val |-> text] otherwise.  Whether a call of    *)
(* the store throws (storage disabled, quota exceeded, access denied) is   *)
(* the environment's choice, the parameter throws.                         *)
(***************************************************************************)
STORAGE_KEY == "notes.v1"

Absent == [has |-> FALSE]
Present(text) == [has |-> TRUE, val |-> text]

\* completion records of a block of code
Return(x) == [threw |-> FALSE, ret |-> x]
Throw(e) == [threw |-> TRUE, err |-> e]

\* localStorage.getItem(STORAGE_KEY)
GetItem(st, throws) == IF throws THEN Throw("StorageError") ELSE Return(st)

\* localStorage.setItem(STORAGE_KEY, text): the completion and the entry after it
SetItem(st, text, throws) ==
    IF throws THEN [threw |-> TRUE, err |-> "StorageError", store |-> st]
    ELSE [threw |-> FALSE, store |-> Present(text)]

\* removeItem called with another key: the entry stays
RemoveItemOtherKey(st, throws) ==
    IF throws THEN [threw |-> TRUE, err |-> "StorageError", store |-> st]
    ELSE [threw |-> FALSE, store |-> st]

\* localStorage.removeItem(STORAGE_KEY)
RemoveItem(st, throws) ==
    IF throws THEN [threw |-> TRUE, err |-> "StorageError", store |-> st]
    ELSE [threw |-> FALSE, store |-> Absent]

\* console.warn(msg, error) and console.error(msg, error)
ConsoleWarn(msg, e) == [level |-> "warn", msg |-> msg, cause |-> e]
ConsoleError(msg, e) == [level |-> "error", msg |-> msg, cause |-> e]

(***************************************************************************)
(* Note Repository.  Each function yields its completion (threw, ret), the *)
(* console entries it wrote (logged) and the entry after it (store).       *)
(***************************************************************************)
\* the try block of loadNotes
LoadNotesTry(st, throws) ==
    LET stored == GetItem(st, throws) IN
    IF stored.threw THEN Throw(stored.err)
    ELSE IF ~stored.ret.has \/ stored.ret.val = <<>> THEN Return(JSArr(<<>>))
    ELSE LET parsed == JSONParse(stored.ret.val)
         IN IF parsed.ok THEN Return(parsed.v) ELSE Throw("SyntaxError")

\* loadNotes reporting its failures with console.error
loadNotesLogsError(st, throws) ==
    LET body == LoadNotesTry(st, throws) IN
    IF body.threw
    THEN [threw |-> FALSE, ret |-> JSArr(<<>>), store |-> st,
          logged |-> <<ConsoleError("Failed to load notes from localStorage:", body.err)>>]
    ELSE [threw |-> FALSE, ret |-> body.ret, store |-> st, logged |-> <<>>]

loadNotes(st, throws) ==
    LET body == LoadNotesTry(st, throws) IN
    IF body.threw
    THEN [threw |-> FALSE, ret |-> JSArr(<<>>), store |-> st,
          logged |-> <<ConsoleWarn("Failed to load notes from localStorage:", body.err)>>]
    ELSE [threw |-> FALSE, ret |-> body.ret, store |-> st, logged |-> <<>>]

\* saveNotes without its try/catch: the store's exception reaches the caller
saveNotesUncaught(st, ns, throws) ==
    LET body == SetItem(st, JSONStringify(NotesToJS(ns)), throws) IN
    [threw |-> body.threw, store |-> body.store, logged |-> <<>>]

saveNotes(st, ns, throws) ==
    LET body == SetItem(st, JSONStringify(NotesToJS(ns)), throws) IN
    IF body.threw
    THEN [threw |-> FALSE, store |-> body.store,
          logged |-> <<ConsoleError("Failed to save notes to localStorage:", body.err)>>]
    ELSE [threw |-> FALSE, store |-> body.store, logged |-> <<>>]

clearNotes(st, throws) ==
    LET body == RemoveItem(st, throws) IN
    IF body.threw
    THEN [threw |-> FALSE, store |-> body.store,
          logged |-> <<ConsoleError("Failed to clear notes from localStorage:", body.err)>>]
    ELSE [threw |-> FALSE, store |-> body.store, logged |-> <<>>]

(***************************************************************************)
(* Inputs of the repository's state machine.                               *)
(***************************************************************************)
\* createdAt values of the notes of storage.test.ts: 10:00, 11:00, 12:00
T10 == ToISOString(10 * 3600000)
T11 == ToISOString(11 * 3600000)
T12 == ToISOString(12 * 3600000)

\* notes handed to saveNotes: ids, flags and dates of sampleNotes, with texts
\* that hold a quotation mark, a tab, a reverse solidus and a sharp s
SampleNotes ==
    { MkNote(<<"1">>, <<"a", "\"", "\t", "\\">>, FALSE, T10),
      MkNote(<<"2">>, <<"ß", " ", "S">>, TRUE, T11) }

SavedSeqs == UNION {[1..k -> SampleNotes] : k \in 0..MaxSaved}

\* payloads found under the key at startup that no saveNotes wrote
RawPayloads ==
    { <<>>,
      <<" ">>,
      <<"i", "n", "v", "a", "l", "i", "d", " ", "j", "s", "o", "n">>,
      <<"n", "u", "l", "l">>,
      <<"4", "2">>,
      <<"{", "}">>,
      <<"[", "1", "]">>,
      <<"[", "{", "\"", "i", "d", "\"", ":", "1", "}", "]">>,
      <<" ", "[", " ", "]", "\n">> }

\* no App component is mounted: the storage module is called directly
NoApp == [phase |-> "none"]

NoCall == [op |-> "none"]

\* values of persisted
NothingPersisted == [any |-> FALSE]
Persisted(ns) == [any |-> TRUE, ns |-> ns]

(***************************************************************************)
(* The repository's state machine.                                         *)
(***************************************************************************)
Init ==
    /\ store \in {Absent} \cup {Present(p) : p \in RawPayloads}
    /\ log = <<>>
    /\ last = NoCall
    /\ persisted = NothingPersisted
    /\ notes = <<>>
    /\ now = 0
    /\ issued = {}
    /\ app = NoApp

LoadNotesCall ==
    \E throws \in BOOLEAN :
        LET r == loadNotes(store, throws) IN
        /\ Len(log) + Len(r.logged) <= MaxLog
        /\ store' = r.store
        /\ log' = log \o r.logged
        /\ last' = [op |-> "loadNotes", storeThrew |-> throws,
                    threw |-> r.threw, ret |-> r.ret]
        /\ UNCHANGED <<persisted, notes, now, issued, app>>

SaveNotesCall ==
    \E ns \in SavedSeqs, throws \in BOOLEAN :
        LET r == saveNotes(store, ns, throws) IN
        /\ Len(log) + Len(r.logged) <= MaxLog
        /\ store' = r.store
        /\ log' = log \o r.logged
        /\ last' = [op |-> "saveNotes", storeThrew |-> throws,
                    threw |-> r.threw, arg |-> ns]
        /\ persisted' = IF throws THEN persisted ELSE Persisted(ns)
        /\ UNCHANGED <<notes, now, issued, app>>

ClearNotesCall ==
    \E throws \in BOOLEAN :
        LET r == clearNotes(store, throws) IN
        /\ Len(log) + Len(r.logged) <= MaxLog
        /\ store' = r.store
        /\ log' = log \o r.logged
        /\ last' = [op |-> "clearNotes", storeThrew |-> throws,
                    threw |-> r.threw, hadEntry |-> store.has]
        /\ persisted' = IF throws THEN persisted ELSE NothingPersisted
        /\ UNCHANGED <<notes, now, issued, app>>

Next == LoadNotesCall \/ SaveNotesCall \/ ClearNotesCall

Spec == Init /\ [][Next]_vars

(***************************************************************************)
(* Properties of the Note Repository, checked under Spec.                  *)
(***************************************************************************)
EmptyArray == JSArr(<<>>)

\* the payload under the key cannot be parsed (loadNotes reaches JSON.parse
\* and JSON.parse throws)
Unparseable(st) == st.has /\ st.val /= <<>> /\ ~JSONParse(st.val).ok

\* C1: loadNotes never raises and, whatever the entry under 'notes.v1' holds
\* and whether or not the read throws, returns a sequence of Notes: the
\* persisted one or the empty one.
C1_LoadAlwaysReturnsNotes ==
    last.op = "loadNotes" =>
        /\ ~last.threw
        /\ IsNoteSeqJS(last.ret)
        /\ \/ last.ret = EmptyArray
           \/ /\ store.has
              /\ JSONParse(store.val).ok
              /\ last.ret = JSONParse(store.val).v

\* C2: with a healthy store, loadNotes() right after saveNotes(ns) returns ns,
\* in content and order, whatever the entry held before the save.
C2_RoundTrip ==
    [][ ( /\ last.op = "saveNotes" /\ ~last.storeThrew
          /\ last'.op = "loadNotes" /\ ~last'.storeThrew )
        => ( /\ ~last'.threw
             /\ last'.ret = NotesToJS(last.arg)
             /\ log' = log ) ]_vars

\* C2 happens: a healthy load has returned the two different notes, text with
\* quotation mark, tab and reverse solidus included, that the last save wrote.
C2_Witness ==
    /\ last.op = "loadNotes" /\ ~last.storeThrew
    /\ persisted.any
    /\ Len(persisted.ns) = 2
    /\ persisted.ns[1] /= persisted.ns[2]
    /\ last.ret = NotesToJS(persisted.ns)

\* C3: a saveNotes whose write the store rejects does not raise and leaves
\* the entry as it was: a healthy loadNotes() then returns the array last
\* written successfully, and the empty array when the key is absent.
C3_FailedSaveKeepsEntry ==
    [][ (last'.op = "saveNotes" /\ last'.storeThrew)
        => ( /\ ~last'.threw
             /\ store' = store
             /\ persisted' = persisted
             /\ (persisted'.any =>
                    loadNotes(store', FALSE).ret = NotesToJS(persisted'.ns))
             /\ (~store'.has => loadNotes(store', FALSE).ret = EmptyArray) ) ]_vars

\* C3 happens: a rejected save of a non-empty array, over an entry that holds
\* another, successfully saved, array.
C3_Witness ==
    /\ last.op = "saveNotes" /\ last.storeThrew
    /\ last.arg /= <<>>
    /\ persisted.any
    /\ persisted.ns /= last.arg
    /\ persisted.ns /= <<>>

\* C4: clearNotes removes the entry, so that a healthy loadNotes() after a
\* healthy clearNotes() returns the empty array whatever was stored; when
\* the store's delete throws, clearNotes does not raise and the entry stays.
C4_Clear ==
    [][ /\ (last'.op = "clearNotes" /\ ~last'.storeThrew)
            => ( /\ ~last'.threw
                 /\ store' = Absent
                 /\ loadNotes(store', FALSE).ret = EmptyArray )
        /\ (last'.op = "clearNotes" /\ last'.storeThrew)
            => (~last'.threw /\ store' = store)
        /\ ( /\ last.op = "clearNotes" /\ ~last.storeThrew
             /\ last'.op = "loadNotes" /\ ~last'.storeThrew )
            => last'.ret = EmptyArray ]_vars

\* C4 happens: a healthy clearNotes has removed an entry that existed.
C4_Witness ==
    /\ last.op = "clearNotes" /\ ~last.storeThrew
    /\ last.hadEntry
    /\ ~store.has

\* C5: a failing loadNotes (unparseable payload, or the read throws) writes
\* exactly one warning and no error; a failing saveNotes or clearNotes writes
\* exactly one error and no warning; a call that succeeds writes nothing.
C5_LogSeverity ==
    [][ LET failed ==
                IF last'.op = "loadNotes"
                THEN last'.storeThrew \/ Unparseable(store)
                ELSE last'.storeThrew
            level == IF last'.op = "loadNotes" THEN "warn" ELSE "error"
        IN IF failed
           THEN /\ Len(log') = Len(log) + 1
                /\ SubSeq(log', 1, Len(log)) = log
                /\ log'[Len(log')].level = level
           ELSE log' = log ]_vars

\* C5 happens: the console holds a warning of a failed load, with the
\* SyntaxError that caused it, followed by an error of a failed save.
C5_Witness ==
    /\ Len(log) = 2
    /\ log[1].level = "warn" /\ log[1].cause = "SyntaxError"
    /\ log[2].level = "error"
    /\ last.op = "saveNotes"

(***************************************************************************)
(* Note Query Engine: createNote and its environment, the identifier       *)
(* generator and the clock.                                                *)
(***************************************************************************)
\* createNote with the text stored as given
createNoteUntrimmed(text, uuid, t) == MkNote(uuid, text, FALSE, ToISOString(t))

\* createNote(text), uuid being the value crypto.randomUUID() returns and t
\* the instant new Date() reads
createNote(text, uuid, t) == MkNote(uuid, Trim(text), FALSE, ToISOString(t))

\* the values crypto.randomUUID() can return
UUIDs == {<<"u", DigitChar(i)>> : i \in 1..MaxUUIDs}

\* the characters of the texts handed to createNote
TextAlphabet == {" ", "\t", "a"}

StringsOver(alphabet, maxLen) == UNION {[1..k -> alphabet] : k \in 0..maxLen}

RawTexts == StringsOver(TextAlphabet, MaxTextLen)

CreateInit ==
    /\ store = Absent
    /\ log = <<>>
    /\ last = NoCall
    /\ persisted = NothingPersisted
    /\ notes = <<>>
    /\ now = ClockStart
    /\ issued = {}
    /\ app = NoApp

\* the clock advances
Tick ==
    /\ now < ClockStart + MaxTicks * TickMs
    /\ now' = now + TickMs
    /\ UNCHANGED <<store, log, last, persisted, notes, issued, app>>

CreateNoteCall ==
    \E text \in RawTexts, uuid \in UUIDs \ issued :
        /\ last' = [op |-> "createNote", arg |-> text, uuid |-> uuid, at |-> now,
                    ret |-> createNote(text, uuid, now)]
        /\ issued' = issued \cup {uuid}
        /\ UNCHANGED <<store, log, persisted, notes, now, app>>

CreateNext == Tick \/ CreateNoteCall

CreateSpec == CreateInit /\ [][CreateNext]_vars

\* s is t with its leading and trailing white space removed and nothing else
\* changed: s is the stretch of t from its first to its last character that
\* is no white space
IsTrimOf(s, t) ==
    \E i \in 1..(Len(t) + 1), j \in 0..Len(t) :
        /\ s = SubSeq(t, i, j)
        /\ \A k \in 1..(i - 1) : t[k] \in WhiteSpace
        /\ \A k \in (j + 1)..Len(t) : t[k] \in WhiteSpace
        /\ (s /= <<>> => s[1] \notin WhiteSpace /\ s[Len(s)] \notin WhiteSpace)

HasVisibleChar(t) == \E k \in 1..Len(t) : t[k] \notin WhiteSpace

\* C6: for a text that is not blank, createNote returns a Note with the
\* trimmed text, done = false, the identifier the generator has just produced
\* and the clock's current instant as createdAt.
C6_CreateNote ==
    (last.op = "createNote" /\ HasVisibleChar(last.arg)) =>
        /\ IsTrimOf(last.ret.text, last.arg)
        /\ last.ret.text /= <<>>
        /\ last.ret.done = FALSE
        /\ last.ret.id = last.uuid
        /\ last.uuid \in issued
        /\ last.ret.createdAt = ToISOString(last.at)
        /\ last.at <= now

\* C6 happens: a note was created, after the clock advanced, from a text with
\* white space on both sides.
C6_Witness ==
    /\ last.op = "createNote"
    /\ last.arg = <<" ", "a", "\t">>
    /\ last.ret.text = <<"a">>
    /\ last.at > ClockStart

(***************************************************************************)
(* Note Query Engine: toggleNote, searchNotes, sortNotes.                  *)
(* A function that receives an object or an array yields, besides its      *)
(* return value (ret), the argument as the call leaves it on the heap.     *)
(***************************************************************************)
\* toggleNote marking the note done whatever its flag was
toggleNoteMarksDone(note) ==
    [ret |-> [note EXCEPT !.done = TRUE], note |-> note]

\* { ...note, done: !note.done }: a new object, the argument is only read
toggleNote(note) ==
    [ret |-> [note EXCEPT !.done = ~note.done], note |-> note]

\* searchNotes with the query used as typed, not trimmed
searchNotesUntrimmed(ns, query) ==
    IF query = <<>> THEN ns
    ELSE LET searchTerm == ToLowerCase(query)
         IN SelectSeq(ns, LAMBDA n : Includes(ToLowerCase(n.text), searchTerm))

searchNotes(ns, query) ==
    IF Trim(query) = <<>> THEN ns
    ELSE LET searchTerm == Trim(ToLowerCase(query))
         IN SelectSeq(ns, LAMBDA n : Includes(ToLowerCase(n.text), searchTerm))

\* new Date(s).getTime() for s in the format of toISOString, on the day of
\* EpochBase: [nan |-> TRUE] is NaN (an invalid date)
NaN == [nan |-> TRUE]
Num(n) == [nan |-> FALSE, v |-> n]

GetTime(s) ==
    IF /\ Len(s) = 24
       /\ SubSeq(s, 1, 11) = DatePrefix
       /\ s[14] = ":" /\ s[17] = ":" /\ s[20] = "." /\ s[24] = "Z"
       /\ \A i \in {12, 13, 15, 16, 18, 19, 21, 22, 23} : IsDigit(s[i])
    THEN LET h == 10 * DigitVal(s[12]) + DigitVal(s[13])
             m == 10 * DigitVal(s[15]) + DigitVal(s[16])
             sec == 10 * DigitVal(s[18]) + DigitVal(s[19])
             ms == 100 * DigitVal(s[21]) + 10 * DigitVal(s[22]) + DigitVal(s[23])
         IN IF h < 24 /\ m < 60 /\ sec < 60
            THEN Num(h * 3600000 + m * 60000 + sec * 1000 + ms)
            ELSE NaN
    ELSE NaN

\* new Date(b.createdAt).getTime() - new Date(a.createdAt).getTime()
DateDiff(a, b) ==
    LET tb == GetTime(b.createdAt)
        ta == GetTime(a.createdAt)
    IN IF tb.nan \/ ta.nan THEN NaN ELSE Num(tb.v - ta.v)

\* Array.prototype.sort reads a comparator's NaN as +0
SortCompare(x) == IF x.nan THEN 0 ELSE x.v

\* Collation elements [p, s, t] (primary, secondary and tertiary weight) of
\* a character in the root collation: white space, then punctuation, then
\* letters; a lower case letter before its upper case; the sharp s as two s
\* with an element between them that has a secondary weight only, so that
\* it comes behind 'ss' whatever the case of the letters in front of it.
CollationElements(c) ==
    CASE c = "\t" -> <<[p |-> 1, s |-> 0, t |-> 0]>>
      [] c = "\n" -> <<[p |-> 2, s |-> 0, t |-> 0]>>
      [] c = " " -> <<[p |-> 3, s |-> 0, t |-> 0]>>
      [] c = "\"" -> <<[p |-> 4, s |-> 0, t |-> 0]>>
      [] c = "\\" -> <<[p |-> 5, s |-> 0, t |-> 0]>>
      [] c = "a" -> <<[p |-> 10, s |-> 0, t |-> 0]>>
      [] c = "A" -> <<[p |-> 10, s |-> 0, t |-> 1]>>
      [] c = "b" -> <<[p |-> 11, s |-> 0, t |-> 0]>>
      [] c = "B" -> <<[p |-> 11, s |-> 0, t |-> 1]>>
      [] c = "s" -> <<[p |-> 12, s |-> 0, t |-> 0]>>
      [] c = "S" -> <<[p |-> 12, s |-> 0, t |-> 1]>>
      [] c = "ß" -> <<[p |-> 12, s |-> 0, t |-> 2], [p |-> 0, s |-> 1, t |-> 2],
                      [p |-> 12, s |-> 0, t |-> 2]>>

RECURSIVE CollationKey(_)
CollationKey(s) ==
    IF s = <<>> THEN <<>> ELSE CollationElements(Head(s)) \o CollationKey(Tail(s))

RECURSIVE CompareWeights(_, _)
\* lexicographic comparison of two sequences of weights: -1, 0 or 1
CompareWeights(x, y) ==
    IF x = <<>> THEN (IF y = <<>> THEN 0 ELSE -1)
    ELSE IF y = <<>> THEN 1
    ELSE IF Head(x) < Head(y) THEN -1
    ELSE IF Head(x) > Head(y) THEN 1
    ELSE CompareWeights(Tail(x), Tail(y))

\* String.prototype.localeCompare: the primary weights of the elements that
\* have one first, then the secondary weights, then the tertiary weights
LocaleCompare(a, b) ==
    LET ka == CollationKey(a)
        kb == CollationKey(b)
        pa == SelectSeq(ka, LAMBDA e : e.p /= 0)
        pb == SelectSeq(kb, LAMBDA e : e.p /= 0)
        byPrimary == CompareWeights([i \in 1..Len(pa) |-> pa[i].p],
                                    [i \in 1..Len(pb) |-> pb[i].p])
        bySecondary == CompareWeights([i \in 1..Len(ka) |-> ka[i].s],
                                      [i \in 1..Len(kb) |-> kb[i].s])
    IN IF byPrimary /= 0 THEN byPrimary
       ELSE IF bySecondary /= 0 THEN bySecondary
       ELSE CompareWeights([i \in 1..Len(ka) |-> ka[i].t],
                           [i \in 1..Len(kb) |-> kb[i].t])

\* the switch of sortNotes with 'alphabetical' as its default case
CompareDefaultAlphabetical(sortBy, a, b) ==
    CASE sortBy = "date" -> SortCompare(DateDiff(a, b))
      [] sortBy = "status" ->
            IF a.done = b.done THEN SortCompare(DateDiff(a, b))
            ELSE IF a.done THEN 1 ELSE -1
      [] OTHER -> LocaleCompare(a.text, b.text)

\* the switch of sortNotes with a 'status' comparator that has no secondary key
CompareStatusOnly(sortBy, a, b) ==
    CASE sortBy = "alphabetical" -> LocaleCompare(a.text, b.text)
      [] sortBy = "status" ->
            IF a.done = b.done THEN 0
            ELSE IF a.done THEN 1 ELSE -1
      [] OTHER -> SortCompare(DateDiff(a, b))

\* the switch of sortNotes comparing, for the date, the ages the notes have
\* on the clock (a note of the future having the age 0) instead of the
\* stored instants
CompareByAge(sortBy, a, b) ==
    LET Age(n) == IF now > GetTime(n.createdAt).v
                  THEN now - GetTime(n.createdAt).v ELSE 0
    IN CASE sortBy = "alphabetical" -> LocaleCompare(a.text, b.text)
         [] sortBy = "status" ->
               IF a.done = b.done THEN SortCompare(DateDiff(a, b))
               ELSE IF a.done THEN 1 ELSE -1
         [] OTHER -> Age(a) - Age(b)

\* the comparator the switch of sortNotes selects
Compare(sortBy, a, b) ==
    CASE sortBy = "alphabetical" -> LocaleCompare(a.text, b.text)
      [] sortBy = "status" ->
            IF a.done = b.done THEN SortCompare(DateDiff(a, b))
            ELSE IF a.done THEN 1 ELSE -1
      [] OTHER -> SortCompare(DateDiff(a, b))

(***************************************************************************)
(* Array.prototype.sort as the runtime performs it on an array of fewer    *)
(* than 64 elements.  The elements are named by their indices 1..n in the  *)
(* array, and order[i][j] is what the comparator returns for the elements  *)
(* i and j, a NaN read as 0.  The run at the front of the array is found   *)
(* (reversed when it is strictly descending), then each element behind it  *)
(* is put into the sorted front at the place a binary search gives.  With  *)
(* a consistent comparator this is the stable sort; with a comparator that *)
(* is not consistent (a createdAt that is no date compares as 0 with every *)
(* note) it is the order this algorithm leaves.                            *)
(***************************************************************************)
\* whether the element at idx continues the run that the first two begin
SortInRun(order, idx) ==
    IF order[2][1] < 0 THEN order[idx][idx - 1] < 0 ELSE order[idx][idx - 1] >= 0

\* the length of the run at the front of an array of n >= 2 elements
SortRunLength(n, order) ==
    CHOOSE r \in 2..n :
        /\ \A idx \in 3..r : SortInRun(order, idx)
        /\ r = n \/ ~SortInRun(order, r + 1)

RECURSIVE SortBinarySearch(_, _, _, _, _)
\* the number of elements of the sorted front work[left+1..right] and of
\* those before it that stay in front of the pivot
SortBinarySearch(work, order, pivot, left, right) ==
    IF left >= right THEN left
    ELSE LET mid == left + ((right - left) \div 2)
         IN IF order[pivot][work[mid + 1]] < 0
            THEN SortBinarySearch(work, order, pivot, left, mid)
            ELSE SortBinarySearch(work, order, pivot, mid + 1, right)

RECURSIVE SortFront(_, _, _)
\* the first k elements in sorted order, run being the length of the run
SortFront(order, k, run) ==
    IF k <= run
    THEN IF order[2][1] < 0 THEN [i \in 1..run |-> run + 1 - i]
         ELSE [i \in 1..run |-> i]
    ELSE LET work == SortFront(order, k - 1, run)
             left == SortBinarySearch(work, order, k, 0, k - 1)
         IN SubSeq(work, 1, left) \o <<k>> \o SubSeq(work, left + 1, k - 1)

\* the indices 1..n in the order the sort leaves their elements in
SortIndices(n, order) ==
    IF n < 2 THEN [i \in 1..n |-> i]
    ELSE SortFront(order, n, SortRunLength(n, order))

\* sorted.sort(comparator) with the comparator the switch selects
ArraySort(xs, sortBy) ==
    LET n == Len(xs)
        order == [i \in 1..n |-> [j \in 1..n |-> Compare(sortBy, xs[i], xs[j])]]
        at == SortIndices(n, order)
    IN [k \in 1..n |-> xs[at[k]]]

\* sortNotes sorting the array it was given
sortNotesInPlace(ns, sortBy) ==
    [ret |-> ArraySort(ns, sortBy), notes |-> ArraySort(ns, sortBy)]

\* sortNotes with a sort that is not stable: notes that compare equal come
\* out in the reverse of their order in the array
sortNotesUnstable(ns, sortBy) ==
    LET sorted == [i \in 1..Len(ns) |-> ns[Len(ns) + 1 - i]]
    IN [ret |-> ArraySort(sorted, sortBy), notes |-> ns]

\* const sorted = [...notes]; return sorted.sort(comparator)
sortNotes(ns, sortBy) ==
    LET sorted == ns
    IN [ret |-> ArraySort(sorted, sortBy), notes |-> ns]

(***************************************************************************)
(* Inputs of the Query Engine's state machine.                             *)
(***************************************************************************)
\* text, flag and date of the notes handed to the Query Engine: texts in
\* both cases, with a space inside and with a sharp s; notes with equal
\* text, equal flag or equal date among them
NoteBodies ==
    { [text |-> <<"a", "S">>, done |-> FALSE, createdAt |-> T10],
      [text |-> <<"a", "S">>, done |-> TRUE, createdAt |-> T12],
      [text |-> <<"A">>, done |-> TRUE, createdAt |-> T11],
      [text |-> <<"A">>, done |-> FALSE, createdAt |-> T10],
      [text |-> <<"S", " ", "a">>, done |-> FALSE, createdAt |-> T12],
      [text |-> <<"ß">>, done |-> TRUE, createdAt |-> T11] }

\* arrays of up to MaxNotes notes, the note at index i having the id i
NoteSeqs ==
    UNION { { [i \in 1..k |-> MkNote(<<DigitChar(i)>>, b[i].text, b[i].done,
                                     b[i].createdAt)] :
              b \in [1..k -> NoteBodies] } : k \in 0..MaxNotes }

\* the characters of the queries handed to searchNotes
QueryAlphabet == {" ", "a", "A", "S", "ß"}

Queries == StringsOver(QueryAlphabet, MaxQueryLen)

\* the three criteria of sortNotes and one it does not know
SortCriteria == {"date", "alphabetical", "status", "priority"}

(***************************************************************************)
(* The Query Engine's state machine: the caller holds the array notes and  *)
(* calls the functions on it, on its elements and on what they return.     *)
(***************************************************************************)
QueryInit ==
    /\ store = Absent
    /\ log = <<>>
    /\ last = NoCall
    /\ persisted = NothingPersisted
    /\ notes \in NoteSeqs
    /\ now = ClockStart
    /\ issued = {}
    /\ app = NoApp

\* toggleNote(notes[i])
ToggleNoteCall ==
    \E i \in 1..Len(notes) :
        LET r == toggleNote(notes[i]) IN
        /\ last' = [op |-> "toggleNote", times |-> 1, orig |-> notes[i],
                    arg |-> notes[i], argAfter |-> r.note, ret |-> r.ret]
        /\ notes' = [notes EXCEPT ![i] = r.note]
        /\ UNCHANGED <<store, log, persisted, now, issued, app>>

\* toggleNote(x), x being the note the previous toggleNote returned
ToggleResultCall ==
    /\ last.op = "toggleNote"
    /\ last.times < MaxToggles
    /\ LET r == toggleNote(last.ret) IN
       last' = [op |-> "toggleNote", times |-> last.times + 1, orig |-> last.orig,
                arg |-> last.ret, argAfter |-> r.note, ret |-> r.ret]
    /\ UNCHANGED <<store, log, persisted, notes, now, issued, app>>

\* searchNotes(notes, query)
SearchNotesCall ==
    \E query \in Queries :
        /\ last' = [op |-> "searchNotes", arg |-> notes, query |-> query,
                    ret |-> searchNotes(notes, query)]
        /\ UNCHANGED <<store, log, persisted, notes, now, issued, app>>

\* sortNotes(notes, sortBy)
SortNotesCall ==
    \E sortBy \in SortCriteria :
        LET r == sortNotes(notes, sortBy) IN
        /\ last' = [op |-> "sortNotes", arg |-> notes, sortBy |-> sortBy,
                    argAfter |-> r.notes, ret |-> r.ret]
        /\ notes' = r.notes
        /\ UNCHANGED <<store, log, persisted, now, issued, app>>

QueryNext == ToggleNoteCall \/ ToggleResultCall \/ SearchNotesCall \/ SortNotesCall

QuerySpec == QueryInit /\ [][QueryNext]_vars

(***************************************************************************)
(* Properties of toggleNote, sortNotes and searchNotes, checked under      *)
(* QuerySpec.                                                              *)
(***************************************************************************)
\* C7: toggleNote negates done and leaves id, text and createdAt alone, so
\* that applied twice it gives back the done, id, text and createdAt of the
\* note it started from.
C7_ToggleInvolution ==
    (last.op = "toggleNote" /\ last.times <= 2) =>
        /\ last.ret.done = ~last.arg.done
        /\ last.ret.id = last.orig.id
        /\ last.ret.text = last.orig.text
        /\ last.ret.createdAt = last.orig.createdAt
        /\ DOMAIN last.ret = DOMAIN last.orig
        /\ (last.times = 1 => last.arg = last.orig /\ last.ret.done = ~last.orig.done)
        /\ (last.times = 2 => last.ret = last.orig)

\* C7 happens: toggleNote was applied to the result of toggleNote of a note
\* that was done.
C7_Witness ==
    /\ last.op = "toggleNote"
    /\ last.times = 2
    /\ last.orig.done
    /\ ~last.arg.done
    /\ last.ret.done

\* C8: the Query Engine is copy-on-write: toggleNote leaves the note it was
\* given as it was, and sortNotes, whatever the criterion, leaves the array
\* it was given with the same elements in the same order.
C8_CopyOnWrite ==
    [][ /\ (last'.op \in {"toggleNote", "sortNotes"} => last'.argAfter = last'.arg)
        /\ (last'.op = "sortNotes" => last'.arg = notes /\ notes' = notes)
        /\ (last'.op = "toggleNote" /\ last'.times = 1 => notes' = notes) ]_vars

\* C8 happens: sortNotes returned the notes in another order than the array
\* holds them, and the array still holds them in its own order.
C8_Witness ==
    /\ last.op = "sortNotes"
    /\ Len(last.arg) = 2
    /\ last.ret = <<last.arg[2], last.arg[1]>>
    /\ last.ret /= last.arg
    /\ notes = last.arg

IsBlank(q) == \A i \in 1..Len(q) : q[i] \in WhiteSpace

\* C9: for a query that is empty or all white space, searchNotes returns the
\* array it was given: the same notes in the same order.
C9_SearchBlankQuery ==
    (last.op = "searchNotes" /\ IsBlank(last.query)) => last.ret = last.arg

\* C9 happens: searchNotes was called with a query of white space on an array
\* of two notes, the texts of which hold no white space.
C9_Witness ==
    /\ last.op = "searchNotes"
    /\ last.query = <<" ", " ">>
    /\ Len(last.arg) = 2
    /\ \A i \in 1..2 : \A k \in 1..Len(last.arg[i].text) :
            last.arg[i].text[k] \notin WhiteSpace
    /\ last.ret = last.arg

\* two characters are the same letter when case is ignored
SameIgnoringCase(c, d) == c = d \/ ToLowerChar(c) = <<d>> \/ ToLowerChar(d) = <<c>>

\* text contains q as a contiguous substring when letter case is ignored
ContainsIgnoringCase(text, q) ==
    \E i \in 0..(Len(text) - Len(q)) :
        \A k \in 1..Len(q) : SameIgnoringCase(text[i + k], q[k])

\* the contiguous substrings of s
Substrings(s) == {SubSeq(s, i, j) : i \in 1..(Len(s) + 1), j \in 0..Len(s)}

\* C10: for a query that is not blank, searchNotes returns, in their order,
\* exactly the notes whose text contains the trimmed query when case is
\* ignored; in particular searchNotes([n], s) and
\* searchNotes([n], s.toUpperCase()) include n for every substring s of
\* n.text.
C10_SearchIgnoresCase ==
    last.op = "searchNotes" =>
        /\ ~IsBlank(last.query) =>
              last.ret = SelectSeq(last.arg,
                            LAMBDA n : \E q \in Substrings(last.query) :
                                          /\ IsTrimOf(q, last.query)
                                          /\ ContainsIgnoringCase(n.text, q))
        /\ (/\ Len(last.arg) = 1
            /\ \E s \in Substrings(last.arg[1].text) :
                    last.query = s \/ last.query = ToUpperCase(s))
              => last.ret = last.arg

(***************************************************************************)
(* The presented list: sortNotes, filterNotesByStatus and calculateStats   *)
(* called on arrays of up to MaxListLen notes.                             *)
(***************************************************************************)
\* text, flag and date of the notes of these arrays: every combination of
\* flag and date, so that notes with equal flag, equal date or both occur
ListBodies ==
    { [text |-> <<"a">>, done |-> FALSE, createdAt |-> T10],
      [text |-> <<"A">>, done |-> TRUE, createdAt |-> T10],
      [text |-> <<"S">>, done |-> FALSE, createdAt |-> T11],
      [text |-> <<"a">>, done |-> TRUE, createdAt |-> T11],
      [text |-> <<"A">>, done |-> FALSE, createdAt |-> T12],
      [text |-> <<"ß">>, done |-> TRUE, createdAt |-> T12] }

\* arrays of up to MaxListLen notes, the note at index i having the id i
ListSeqs ==
    UNION { { [i \in 1..k |-> MkNote(<<DigitChar(i)>>, b[i].text, b[i].done,
                                     b[i].createdAt)] :
              b \in [1..k -> ListBodies] } : k \in 0..MaxListLen }

ViewInit ==
    /\ store = Absent
    /\ log = <<>>
    /\ last = NoCall
    /\ persisted = NothingPersisted
    /\ notes \in ListSeqs
    /\ now = ClockStart
    /\ issued = {}
    /\ app = NoApp

\* filterNotesByStatus returning the whole array for 'open'
filterNotesOpenIsAll(ns, filter) ==
    CASE filter = "done" -> SelectSeq(ns, LAMBDA n : n.done)
      [] OTHER -> ns

\* switch (filter): 'open' and 'done' filter, 'all' and anything else
\* return the array itself
filterNotesByStatus(ns, filter) ==
    CASE filter = "open" -> SelectSeq(ns, LAMBDA n : ~n.done)
      [] filter = "done" -> SelectSeq(ns, LAMBDA n : n.done)
      [] OTHER -> ns

\* the three filters and one filterNotesByStatus does not know
Filters == {"all", "open", "done", "archived"}

(***************************************************************************)
(* Number arithmetic of completionRate: (completed / total) * 100 in IEEE  *)
(* 754 double precision, then Math.round.  A positive double is            *)
(* [m, e]: m its MantissaBits significant bits, most significant first,    *)
(* e the exponent of the first of them; zero is [m |-> <<>>, e |-> 0].     *)
(***************************************************************************)
MantissaBits == 53

Zero == [m |-> <<>>, e |-> 0]

RECURSIVE Pow2(_)
\* 2^n, by squaring
Pow2(n) ==
    IF n = 0 THEN 1
    ELSE IF n % 2 = 1 THEN 2 * Pow2(n - 1)
    ELSE Pow2(n \div 2) * Pow2(n \div 2)

RECURSIVE Pow2Mod(_, _)
\* 2^n modulo t, by squaring
Pow2Mod(n, t) ==
    IF n = 0 THEN 1 % t
    ELSE IF n % 2 = 1 THEN (2 * Pow2Mod(n - 1, t)) % t
    ELSE (Pow2Mod(n \div 2, t) * Pow2Mod(n \div 2, t)) % t

\* a binary numeral plus one (one bit longer when all bits were 1)
Inc(b) ==
    LET zeros == {i \in 1..Len(b) : b[i] = 0}
    IN IF zeros = {} THEN <<1>> \o [i \in 1..Len(b) |-> 0]
       ELSE LET z == CHOOSE i \in zeros : \A j \in zeros : j <= i
            IN [i \in 1..Len(b) |-> IF i < z THEN b[i] ELSE IF i = z THEN 1 ELSE 0]

\* round to nearest, ties to even: b holds at least MantissaBits + 1 bits
\* of the exact value, the first of them 1 and of exponent e; sticky says
\* that the exact value has further non-zero bits behind b
RoundTiesToEven(b, e, sticky) ==
    LET keep == SubSeq(b, 1, MantissaBits)
        guard == b[MantissaBits + 1]
        rest == sticky \/ \E i \in (MantissaBits + 2)..Len(b) : b[i] = 1
        up == guard = 1 /\ (rest \/ keep[MantissaBits] = 1)
        inc == Inc(keep)
    IN IF ~up THEN [m |-> keep, e |-> e]
       ELSE IF Len(inc) > MantissaBits
            THEN [m |-> SubSeq(inc, 1, MantissaBits), e |-> e + 1]
            ELSE [m |-> inc, e |-> e]

\* the next n bits of the binary expansion of r / t, for r < t: bit i is
\* the integer part of 2 * (r * 2^(i-1) mod t) / t
DivBits(r, t, n) ==
    [i \in 1..n |-> IF 2 * ((r * Pow2Mod(i - 1, t)) % t) >= t THEN 1 ELSE 0]

\* the remainder left behind these n bits
DivRem(r, t, n) == (r * Pow2Mod(n, t)) % t

RECURSIVE Leading(_, _, _)
\* c / t scaled into [1, 2): [r, e] with r / t = (c / t) * 2^(-e)
Leading(r, t, e) ==
    IF r >= t THEN [r |-> r, e |-> e] ELSE Leading(2 * r, t, e - 1)

\* completed / total, for 0 <= c <= t and t > 0
FloatDiv(c, t) ==
    IF c = 0 THEN Zero
    ELSE LET l == Leading(c, t, 0)
             b == <<1>> \o DivBits(l.r - t, t, MantissaBits)
             rem == DivRem(l.r - t, t, MantissaBits)
         IN RoundTiesToEven(b, l.e, rem /= 0)

\* the binary numeral of a natural number in w bits
NatBitsN(n, w) == [i \in 1..w |-> (n \div Pow2(w - i)) % 2]

\* the binary numeral of a natural number below 2^30, empty for 0
NatBits(n) == NatBitsN(n, CHOOSE w \in 0..30 : n < Pow2(w) /\ (w > 0 => n >= Pow2(w - 1)))

RECURSIVE BitsNat(_)
\* the natural number of a binary numeral of up to 30 bits
BitsNat(b) ==
    IF Len(b) = 0 THEN 0
    ELSE IF Len(b) = 1 THEN b[1]
    ELSE LET h == Len(b) \div 2
         IN BitsNat(SubSeq(b, 1, h)) * Pow2(Len(b) - h) + BitsNat(SubSeq(b, h + 1, Len(b)))

\* the low and high digit of the numeral b in base 2^ChunkBits, and what
\* is in front of them
ChunkBits == 20
LowChunk(b) == BitsNat(SubSeq(b, Len(b) - ChunkBits + 1, Len(b)))
MidChunk(b) == BitsNat(SubSeq(b, Len(b) - 2 * ChunkBits + 1, Len(b) - ChunkBits))
HighChunk(b) == BitsNat(SubSeq(b, 1, Len(b) - 2 * ChunkBits))

\* the binary numeral b of MantissaBits bits times the natural number k,
\* plus the carry c: long multiplication in base 2^ChunkBits
MulBits(b, k, c) ==
    LET lo == LowChunk(b) * k + c
        mid == MidChunk(b) * k + lo \div Pow2(ChunkBits)
        high == HighChunk(b) * k + mid \div Pow2(ChunkBits)
    IN NatBits(high) \o NatBitsN(mid % Pow2(ChunkBits), ChunkBits)
                    \o NatBitsN(lo % Pow2(ChunkBits), ChunkBits)

\* x * k for a double x and an integer k of 2..127: the exact product has
\* up to 7 bits more than x and is rounded back to MantissaBits bits
FloatMul(x, k) ==
    IF x = Zero THEN Zero
    ELSE LET p == MulBits(x.m, k, 0)
         IN RoundTiesToEven(p, x.e + (Len(p) - MantissaBits), FALSE)

\* Math.round of a double x with 0 <= x < 2^51: the nearest integer, a half
\* going up
MathRound(x) ==
    IF x = Zero \/ x.e < -1 THEN 0
    ELSE IF x.e = -1 THEN 1
    ELSE BitsNat(SubSeq(x.m, 1, x.e + 1)) + x.m[x.e + 2]

\* calculateStats rounding the rate down
calculateStatsFloor(ns) ==
    LET total == Len(ns)
        completed == Len(SelectSeq(ns, LAMBDA n : n.done))
        pending == total - completed
    IN [total |-> total, completed |-> completed, pending |-> pending,
        completionRate |-> IF total > 0 THEN (completed * 100) \div total ELSE 0]

\* calculateStats counting the notes that are not done as completed
calculateStatsCountsOpen(ns) ==
    LET total == Len(ns)
        completed == Len(SelectSeq(ns, LAMBDA n : ~n.done))
        pending == total - completed
    IN [total |-> total, completed |-> completed, pending |-> pending,
        completionRate |-> IF total > 0
                           THEN MathRound(FloatMul(FloatDiv(completed, total), 100))
                           ELSE 0]

calculateStats(ns) ==
    LET total == Len(ns)
        completed == Len(SelectSeq(ns, LAMBDA n : n.done))
        pending == total - completed
    IN [total |-> total, completed |-> completed, pending |-> pending,
        completionRate |-> IF total > 0
                           THEN MathRound(FloatMul(FloatDiv(completed, total), 100))
                           ELSE 0]

\* filterNotesByStatus(notes, filter)
FilterNotesByStatusCall ==
    \E filter \in Filters :
        /\ last' = [op |-> "filterNotesByStatus", arg |-> notes, filter |-> filter,
                    ret |-> filterNotesByStatus(notes, filter)]
        /\ UNCHANGED <<store, log, persisted, notes, now, issued, app>>

\* calculateStats(notes)
CalculateStatsCall ==
    /\ last' = [op |-> "calculateStats", arg |-> notes, ret |-> calculateStats(notes)]
    /\ UNCHANGED <<store, log, persisted, notes, now, issued, app>>

ViewNext == SortNotesCall \/ FilterNotesByStatusCall \/ CalculateStatsCall

ViewSpec == ViewInit /\ [][ViewNext]_vars

(***************************************************************************)
(* Properties of sortNotes and filterNotesByStatus, checked under          *)
(* ViewSpec.                                                               *)
(***************************************************************************)
\* xs and ys hold the same notes, each as many times in one as in the other
SameNotes(xs, ys) ==
    /\ Len(xs) = Len(ys)
    /\ \A i \in 1..Len(xs) :
          Cardinality({j \in 1..Len(ys) : ys[j] = xs[i]})
            = Cardinality({j \in 1..Len(xs) : xs[j] = xs[i]})

\* the instant of a note's createdAt, in milliseconds
CreatedMs(n) == GetTime(n.createdAt).v

\* every adjacent pair of xs has the createdAt of the first >= that of the second
NewestFirst(xs) ==
    \A i \in 1..(Len(xs) - 1) : CreatedMs(xs[i]) >= CreatedMs(xs[i + 1])

\* C11: sortNotes(ns, 'date') returns the notes of ns ordered by createdAt
\* descending, and for a criterion other than 'date', 'alphabetical' and
\* 'status' sortNotes returns what it returns for 'date'.
C11_SortByDate ==
    (last.op = "sortNotes" /\ last.sortBy \notin {"alphabetical", "status"}) =>
        /\ SameNotes(last.ret, last.arg)
        /\ NewestFirst(last.ret)
        /\ last.ret = sortNotes(last.arg, "date").ret

\* C11 happens: sortNotes was called with a criterion it does not know on
\* three notes of three dates, the oldest first.
C11_Witness ==
    /\ last.op = "sortNotes"
    /\ last.sortBy = "priority"
    /\ Len(last.arg) = 3
    /\ CreatedMs(last.arg[1]) < CreatedMs(last.arg[2])
    /\ CreatedMs(last.arg[2]) < CreatedMs(last.arg[3])
    /\ last.ret = <<last.arg[3], last.arg[2], last.arg[1]>>

\* C12: sortNotes(ns, 'status') returns the notes of ns with every note
\* that is not done before every note that is done, and the notes of equal
\* done ordered by createdAt descending; [open@T1, done@T2, open@T3] with
\* T3 > T1 gives [open@T3, open@T1, done@T2].
C12_SortByStatus ==
    (last.op = "sortNotes" /\ last.sortBy = "status") =>
        /\ SameNotes(last.ret, last.arg)
        /\ \A i, j \in 1..Len(last.ret) :
              (~last.ret[i].done /\ last.ret[j].done) => i < j
        /\ NewestFirst(SelectSeq(last.ret, LAMBDA n : ~n.done))
        /\ NewestFirst(SelectSeq(last.ret, LAMBDA n : n.done))
        /\ (/\ Len(last.arg) = 3
            /\ ~last.arg[1].done /\ last.arg[2].done /\ ~last.arg[3].done
            /\ CreatedMs(last.arg[3]) > CreatedMs(last.arg[1]))
              => last.ret = <<last.arg[3], last.arg[1], last.arg[2]>>

\* C12 happens: sortNotes(ns, 'status') was called on [open@10:00,
\* done@11:00, open@12:00].
C12_Witness ==
    /\ last.op = "sortNotes"
    /\ last.sortBy = "status"
    /\ Len(last.arg) = 3
    /\ ~last.arg[1].done /\ last.arg[1].createdAt = T10
    /\ last.arg[2].done /\ last.arg[2].createdAt = T11
    /\ ~last.arg[3].done /\ last.arg[3].createdAt = T12
    /\ last.ret = <<last.arg[3], last.arg[1], last.arg[2]>>

\* C13: filterNotesByStatus(ns, 'open') is the notes of ns that are not
\* done, in their order; for 'done' the notes that are done, in their order;
\* for 'all' and for a filter it does not know it is ns, content and order.
C13_FilterByStatus ==
    last.op = "filterNotesByStatus" =>
        LET keep == {i \in 1..Len(last.arg) :
                        \/ last.filter \notin {"open", "done"}
                        \/ last.filter = "open" /\ ~last.arg[i].done
                        \/ last.filter = "done" /\ last.arg[i].done}
        IN /\ Len(last.ret) = Cardinality(keep)
           /\ \A k \in 1..Len(last.ret) :
                 \E i \in keep : /\ last.ret[k] = last.arg[i]
                                 /\ Cardinality({j \in keep : j < i}) = k - 1

\* C13 happens: filterNotesByStatus(ns, 'open') dropped the note in the
\* middle of three, and kept the other two in their order.
C13_Witness ==
    /\ last.op = "filterNotesByStatus"
    /\ last.filter = "open"
    /\ Len(last.arg) = 3
    /\ last.arg[2].done
    /\ last.ret = <<last.arg[1], last.arg[3]>>

(***************************************************************************)
(* calculateStats called on arrays of up to MaxStatsLen notes.             *)
(***************************************************************************)
\* an array of t notes, note i done when isDone[i]
StatsArray(t, isDone) ==
    [i \in 1..t |-> MkNote(NatToStr(i), <<"a">>, isDone[i], T10)]

\* for every length t and every number c of done notes: the done notes in
\* front, the done notes behind, and every second note done
StatsSeqs ==
    UNION { UNION { { StatsArray(t, [i \in 1..t |-> i <= c]),
                      StatsArray(t, [i \in 1..t |-> i > t - c]) } : c \in 0..t }
              \cup { StatsArray(t, [i \in 1..t |-> i % 2 = 0]) } :
            t \in 0..MaxStatsLen }

StatsInit ==
    /\ store = Absent
    /\ log = <<>>
    /\ last = NoCall
    /\ persisted = NothingPersisted
    /\ notes \in StatsSeqs
    /\ now = ClockStart
    /\ issued = {}
    /\ app = NoApp

StatsNext == CalculateStatsCall

StatsSpec == StatsInit /\ [][StatsNext]_vars

\* the number of notes of ns that are done
DoneCount(ns) == Cardinality({i \in 1..Len(ns) : ns[i].done})

\* C14: the statistics are consistent: total is the length of ns,
\* completed the number of notes that are done, pending = total -
\* completed, so that completed + pending = total with both >= 0, and the
\* completionRate of the empty array is 0.
C14_StatsConsistency ==
    last.op = "calculateStats" =>
        /\ last.ret.total = Len(last.arg)
        /\ last.ret.completed = DoneCount(last.arg)
        /\ last.ret.pending = last.ret.total - last.ret.completed
        /\ last.ret.completed + last.ret.pending = last.ret.total
        /\ last.ret.completed >= 0
        /\ last.ret.pending >= 0
        /\ (last.arg = <<>> => last.ret.completionRate = 0)

\* C14 happens: calculateStats counted 1 done note behind 2 that are not.
C14_Witness ==
    /\ last.op = "calculateStats"
    /\ Len(last.arg) = 3
    /\ ~last.arg[1].done /\ ~last.arg[2].done /\ last.arg[3].done
    /\ last.ret.total = 3
    /\ last.ret.completed = 1
    /\ last.ret.pending = 2

\* C15: for a non-empty array the completionRate is the integer nearest to
\* 100 * completed / total, a half going up: floor((200 * completed +
\* total) / (2 * total)); it lies in 0..100, is 100 exactly when all notes
\* are done and 0 when none is; 1 of 3 gives 33 and 2 of 3 gives 67.
C15_CompletionRate ==
    (last.op = "calculateStats" /\ Len(last.arg) > 0) =>
        LET total == Len(last.arg)
            completed == DoneCount(last.arg)
            rate == last.ret.completionRate
        IN /\ rate = (200 * completed + total) \div (2 * total)
           /\ rate \in 0..100
           /\ (rate = 100 <=> completed = total)
           /\ (completed = 0 => rate = 0)
           /\ (total = 3 /\ completed = 1 => rate = 33)
           /\ (total = 3 /\ completed = 2 => rate = 67)

(***************************************************************************)
(* The App component (App.tsx): the in-memory collection notes is its      *)
(* React state, initialised from loadNotes() and written back with         *)
(* saveNotes(notes) by an effect after every render that changed it.       *)
(* app.phase is "unmounted" before the first render, "effect" while the    *)
(* effect of the last render is due, "idle" when the user can act.         *)
(* app.boot is history: the entry found under the key at startup.          *)
(* app.build names the component that runs, see below.                     *)
(***************************************************************************)
\* the Note an object read back from the store is
NoteOfJS(x) ==
    MkNote(GetMember(x, KeyId).str, GetMember(x, KeyText).str,
           GetMember(x, KeyDone).bool, GetMember(x, KeyCreatedAt).str)

NotesOfJS(x) == [i \in 1..Len(x.arr) |-> NoteOfJS(x.arr[i])]

\* a note an earlier session left in the store
EarlierNote == MkNote(<<"1">>, <<"a">>, TRUE, T10)

\* what App finds under the key at startup: nothing, text that is not JSON,
\* or the array an earlier session saved
AppStores ==
    { Absent,
      Present(<<"i", "n", "v", "a", "l", "i", "d", " ", "j", "s", "o", "n">>),
      Present(JSONStringify(NotesToJS(<<EarlierNote>>))) }

\* what the user types into the 'New note' input: a blank text and a text
\* with white space around it
AppTexts == { <<" ">>, <<" ", "b", "\t">> }

\* what crypto.randomUUID() can return to App after the values in iss: the
\* values are opaque and only compared for equality, so that one order of
\* them stands for every order
FreshUUIDs(iss) ==
    {<<"u", DigitChar(i)>> : i \in {j \in 1..MaxUUIDs : j = Cardinality(iss) + 1}}

\* add() giving the new note the id of the note in front of the collection
addReusesId(ns, text, uuid, t) ==
    LET val == Trim(text) IN
    IF val = <<>> THEN [set |-> FALSE, notes |-> ns]
    ELSE [set |-> TRUE,
          notes |-> <<MkNote(IF ns = <<>> THEN uuid ELSE ns[1].id, val, FALSE,
                             ToISOString(t))>> \o ns]

\* add() storing the text as typed
addUntrimmed(ns, text, uuid, t) ==
    LET val == Trim(text) IN
    IF val = <<>> THEN [set |-> FALSE, notes |-> ns]
    ELSE [set |-> TRUE,
          notes |-> <<MkNote(uuid, text, FALSE, ToISOString(t))>> \o ns]

\* add() putting the new note behind the notes of the collection
addAppends(ns, text, uuid, t) ==
    LET val == Trim(text) IN
    IF val = <<>> THEN [set |-> FALSE, notes |-> ns]
    ELSE [set |-> TRUE,
          notes |-> ns \o <<MkNote(uuid, val, FALSE, ToISOString(t))>>]

\* add(): nothing for a blank text, otherwise setNotes([{...}, ...notes])
add(ns, text, uuid, t) ==
    LET val == Trim(text) IN
    IF val = <<>> THEN [set |-> FALSE, notes |-> ns]
    ELSE [set |-> TRUE,
          notes |-> <<MkNote(uuid, val, FALSE, ToISOString(t))>> \o ns]

\* toggle(id) marking every note of the collection
toggleAll(ns, id) ==
    [i \in 1..Len(ns) |-> [ns[i] EXCEPT !.done = ~ns[i].done]]

\* toggle(id): notes.map(n => n.id === id ? { ...n, done: !n.done } : n)
toggle(ns, id) ==
    [i \in 1..Len(ns) |->
        IF ns[i].id = id THEN [ns[i] EXCEPT !.done = ~ns[i].done] ELSE ns[i]]

\* remove(id): notes.filter(n => n.id !== id)
remove(ns, id) == SelectSeq(ns, LAMBDA n : n.id /= id)

\* a render of App evaluates loadNotes() as the argument of useState; only
\* the first render uses its value
Render(st, throws) == loadNotes(st, throws)

\* the effect saving the collection of the render before
EffectSavesStale(st, ns, throws) ==
    saveNotes(st, IF ns = <<>> THEN ns ELSE Tail(ns), throws)

\* the effect of a render that changed notes
Effect(st, ns, throws) == saveNotes(st, ns, throws)

(***************************************************************************)
(* The second App component of the repository keeps its repository inline: *)
(* a loadNotes that is silent when it fails and a saveNotes without a      *)
(* try/catch, under the same key 'notes.v1'.  Its add, toggle and remove   *)
(* are written as those of the first.  app.build tells which of the two    *)
(* components runs: "storage" (the one that imports storage.ts) or         *)
(* "inline".                                                               *)
(***************************************************************************)
\* try { return JSON.parse(localStorage.getItem(KEY) ?? '[]') } catch { return [] }
loadNotesInline(st, throws) ==
    LET stored == GetItem(st, throws)
        text == IF stored.ret.has THEN stored.ret.val ELSE <<"[", "]">>
        parsed == JSONParse(text)
    IN IF stored.threw \/ ~parsed.ok
       THEN [threw |-> FALSE, ret |-> JSArr(<<>>), store |-> st, logged |-> <<>>]
       ELSE [threw |-> FALSE, ret |-> parsed.v, store |-> st, logged |-> <<>>]

\* localStorage.setItem(KEY, JSON.stringify(notes)): a failure of the store
\* reaches the caller
saveNotesInline(st, ns, throws) ==
    LET body == SetItem(st, JSONStringify(NotesToJS(ns)), throws) IN
    [threw |-> body.threw, store |-> body.store, logged |-> <<>>]

addInline(ns, text, uuid, t) ==
    LET val == Trim(text) IN
    IF val = <<>> THEN [set |-> FALSE, notes |-> ns]
    ELSE [set |-> TRUE,
          notes |-> <<MkNote(uuid, val, FALSE, ToISOString(t))>> \o ns]

toggleInline(ns, id) ==
    [i \in 1..Len(ns) |->
        IF ns[i].id = id THEN [ns[i] EXCEPT !.done = ~ns[i].done] ELSE ns[i]]

removeInline(ns, id) == SelectSeq(ns, LAMBDA n : n.id /= id)

Builds == {"storage", "inline"}

AppInit ==
    /\ store \in AppStores
    /\ log = <<>>
    /\ last = NoCall
    /\ persisted = NothingPersisted
    /\ notes = <<>>
    /\ now = ClockStart
    /\ issued = {}
    /\ \E build \in Builds :
          app = [phase |-> "unmounted", boot |-> store, build |-> build]

\* the first render: useState(loadNotes()); the read of the store can fail
AppMount ==
    /\ app.phase = "unmounted"
    /\ \E throws \in BOOLEAN :
        LET r == IF app.build = "inline" THEN loadNotesInline(store, throws)
                 ELSE Render(store, throws)
        IN
        /\ log' = log \o r.logged
        /\ notes' = NotesOfJS(r.ret)
        /\ last' = [op |-> "mount"]
        /\ app' = [app EXCEPT !.phase = "effect"]
        /\ UNCHANGED <<store, persisted, now, issued>>

\* useEffect(() => { saveNotes(notes); }, [notes]), the store being healthy
\* once App has started
RunEffect ==
    /\ app.phase = "effect"
    /\ LET r == IF app.build = "inline" THEN saveNotesInline(store, notes, FALSE)
                ELSE Effect(store, notes, FALSE)
       IN
        /\ store' = r.store
        /\ log' = log \o r.logged
        /\ persisted' = Persisted(notes)
        /\ last' = [op |-> "effect"]
        /\ app' = [app EXCEPT !.phase = "idle"]
        /\ UNCHANGED <<notes, now, issued>>

\* the user types a text and presses 'Add': add(), then the render that
\* setNotes and setText schedule
AddClick ==
    /\ app.phase = "idle"
    /\ \E text \in AppTexts, uuid \in FreshUUIDs(issued) :
        LET a == IF app.build = "inline" THEN addInline(notes, text, uuid, now)
                 ELSE add(notes, text, uuid, now)
            r == IF app.build = "inline" THEN loadNotesInline(store, FALSE)
                 ELSE Render(store, FALSE)
        IN IF ~a.set
           THEN /\ last' = [op |-> "add", set |-> FALSE]
                /\ UNCHANGED <<store, log, persisted, notes, now, issued, app>>
           ELSE /\ Cardinality(issued) < MaxAdds
                /\ notes' = a.notes
                /\ issued' = issued \cup {uuid}
                /\ log' = log \o r.logged
                /\ last' = [op |-> "add", set |-> TRUE]
                /\ app' = [app EXCEPT !.phase = "effect"]
                /\ UNCHANGED <<store, persisted, now>>

\* the user clicks the checkbox of a note: toggle(id), then the render
ToggleClick ==
    /\ app.phase = "idle"
    /\ \E i \in 1..Len(notes) :
        LET r == IF app.build = "inline" THEN loadNotesInline(store, FALSE)
                 ELSE Render(store, FALSE)
        IN
        /\ notes' = IF app.build = "inline" THEN toggleInline(notes, notes[i].id)
                    ELSE toggle(notes, notes[i].id)
        /\ log' = log \o r.logged
        /\ last' = [op |-> "toggle"]
        /\ app' = [app EXCEPT !.phase = "effect"]
        /\ UNCHANGED <<store, persisted, now, issued>>

\* the user clicks 'Delete' on a note: remove(id), then the render
RemoveClick ==
    /\ app.phase = "idle"
    /\ \E i \in 1..Len(notes) :
        LET r == IF app.build = "inline" THEN loadNotesInline(store, FALSE)
                 ELSE Render(store, FALSE)
        IN
        /\ notes' = IF app.build = "inline" THEN removeInline(notes, notes[i].id)
                    ELSE remove(notes, notes[i].id)
        /\ log' = log \o r.logged
        /\ last' = [op |-> "remove"]
        /\ app' = [app EXCEPT !.phase = "effect"]
        /\ UNCHANGED <<store, persisted, now, issued>>

\* the clock advances, whatever App is doing
AppTick ==
    /\ app.phase \in {"unmounted", "effect", "idle"}
    /\ now < ClockStart + MaxAppTicks * TickMs
    /\ now' = now + TickMs
    /\ UNCHANGED <<store, log, last, persisted, notes, issued, app>>

AppNext == AppMount \/ RunEffect \/ AddClick \/ ToggleClick \/ RemoveClick \/ AppTick

AppSpec == AppInit /\ [][AppNext]_vars

(***************************************************************************)
(* Properties of the collection App holds, checked under AppSpec.          *)
(***************************************************************************)
\* the ids of the notes of ns
Ids(ns) == {ns[i].id : i \in 1..Len(ns)}

\* no two notes of ns share an id
DistinctIds(ns) == \A i, j \in 1..Len(ns) : i /= j => ns[i].id /= ns[j].id

\* C16: starting from an empty store, with a generator that never repeats a
\* value, after any add, toggle and remove no two notes of the collection
\* share an id, and an id of a removed note is never given to a later note:
\* every id of the collection came from the generator, and a note that
\* enters the collection has an id the generator had not given before.
C16_IdUniqueness ==
    [][ app.boot = Absent =>
          /\ DistinctIds(notes')
          /\ Ids(notes') \subseteq issued'
          /\ \A i \in 1..Len(notes') :
                notes'[i].id \notin Ids(notes) => notes'[i].id \notin issued ]_vars

\* C16 happens: App started from an empty store, two notes were added, and
\* the add of the second found the first one removed.
C16_Witness ==
    /\ app.boot = Absent
    /\ last.op = "add"
    /\ last.set
    /\ Cardinality(issued) = 2
    /\ Len(notes) = 1

\* C18: every note still in the collection has the id, text and createdAt
\* it had when it entered it, only done may differ; a toggle of note x
\* changes the done of x only and leaves every other note and the order of
\* the collection as they were.
C18_IdentityFieldsImmutable ==
    [][ /\ \A j \in 1..Len(notes') : \A i \in 1..Len(notes) :
              notes'[j].id = notes[i].id =>
                  /\ notes'[j].text = notes[i].text
                  /\ notes'[j].createdAt = notes[i].createdAt
        /\ (app.phase = "idle" /\ last'.op = "toggle") =>
              \E x \in 1..Len(notes) :
                  notes' = [notes EXCEPT ![x].done = ~notes[x].done]
        /\ (app.phase = "idle" /\ last'.op = "remove") =>
              \E x \in 1..Len(notes) :
                  notes' = SubSeq(notes, 1, x - 1) \o SubSeq(notes, x + 1, Len(notes))
        /\ (app.phase = "idle" /\ last'.op = "add" /\ last'.set) =>
              Tail(notes') = notes ]_vars

\* C18 happens: of the two notes the user added, the one added first was
\* toggled, the other was not.
C18_Witness ==
    /\ Len(notes) >= 2
    /\ notes[1].id \in issued /\ ~notes[1].done
    /\ notes[2].id \in issued /\ notes[2].done
    /\ last.op = "toggle"

\* on the store entry st a healthy loadNotes() returns the collection ns
LoadGives(st, ns) ==
    LET r == loadNotes(st, FALSE)
    IN r.ret = NotesToJS(ns) /\ r.logged = <<>>

\* C19: persistence follows every mutation: the collection comes from
\* loadNotes() at startup only, every add, toggle and remove makes the save
\* of the collection due, while it is due nothing happens but that save
\* and the passing of time,
\* and once it has run a healthy loadNotes() returns a sequence equal to
\* the collection App holds.
C19_PersistenceFollowsMutation ==
    [][ /\ (app.phase /= "unmounted" => app'.phase /= "unmounted")
        /\ (notes' /= notes => app'.phase = "effect")
        /\ (app.phase = "effect" =>
               \/ app'.phase = "idle" /\ notes' = notes
               \/ UNCHANGED <<store, log, last, persisted, notes, issued, app>>)
        /\ (app'.phase = "idle" => LoadGives(store', notes')) ]_vars

\* C19 happens: after an add and a toggle the save has run, on a store that
\* held text that is not JSON at startup.
C19_Witness ==
    /\ app.phase = "idle"
    /\ app.boot \notin {Absent, Present(JSONStringify(NotesToJS(<<EarlierNote>>)))}
    /\ Len(notes) = 1
    /\ notes[1].done
    /\ last.op = "effect"
    /\ persisted = Persisted(notes)

(***************************************************************************)
(* Creation of notes: createNote called directly on the storage module,    *)
(* or App running and creating its notes in add().                         *)
(***************************************************************************)
CreationInit == CreateInit \/ AppInit

CreationNext == (app = NoApp /\ CreateNext) \/ AppNext

CreationSpec == CreationInit /\ [][CreationNext]_vars

\* a text that is not empty and has no white space at either end
IsTrimmedText(t) ==
    /\ t /= <<>>
    /\ t[1] \notin WhiteSpace
    /\ t[Len(t)] \notin WhiteSpace

\* C17 as stated: every Note createNote produces, and every Note of the
\* collection after any add, toggle and remove, has a text that is not
\* empty and has no leading or trailing white space, and no operation other
\* than creation changes a text.
C17_TextInvariant ==
    [][ /\ (last'.op = "createNote" => IsTrimmedText(last'.ret.text))
        /\ \A i \in 1..Len(notes') : IsTrimmedText(notes'[i].text)
        /\ \A j \in 1..Len(notes') : \A i \in 1..Len(notes) :
              notes'[j].id = notes[i].id => notes'[j].text = notes[i].text ]_vars

\* C17 amended: every Note createNote produces from a text that is not
\* blank, and every Note of the collection after any add, toggle and remove,
\* has a text that is not empty and has no leading or trailing white space,
\* and no operation other than creation changes a text.
C17_TextInvariantOfNonBlank ==
    [][ /\ (last'.op = "createNote" /\ HasVisibleChar(last'.arg)) =>
              IsTrimmedText(last'.ret.text)
        /\ \A i \in 1..Len(notes') : IsTrimmedText(notes'[i].text)
        /\ \A j \in 1..Len(notes') : \A i \in 1..Len(notes) :
              notes'[j].id = notes[i].id => notes'[j].text = notes[i].text ]_vars

\* C17 happens: the note the user typed with white space around its text
\* is in the collection with the text trimmed, and was toggled since.
C17_Witness ==
    /\ app.phase = "idle"
    /\ \E i \in 1..Len(notes) :
          /\ notes[i].id \in issued
          /\ notes[i].text = <<"b">>
          /\ notes[i].done

(***************************************************************************)
(* The Query Engine in a changing environment: between the calls the clock *)
(* advances, the generator is used and the store entry is written or       *)
(* removed by other clients.  The record of a call keeps what the call     *)
(* returned, which parts of the environment have changed since, and the    *)
(* result of the equal call before it.                                     *)
(***************************************************************************)
\* the array the caller holds: the flags and dates of sampleNotes
EngineNotes ==
    << MkNote(<<"1">>, <<"a", "S">>, FALSE, T10),
       MkNote(<<"2">>, <<"A">>, TRUE, T11),
       MkNote(<<"3">>, <<"S", " ", "a">>, FALSE, T12) >>

EngineTexts == { <<"a">>, <<" ", "b", "\t">> }

EngineQueries == { <<" ">>, <<"a">>, <<"S", " ">> }

\* a second collection: two notes of one text and of one date
EngineTies ==
    << MkNote(<<"1">>, <<"a">>, TRUE, T11),
       MkNote(<<"2">>, <<"a">>, FALSE, T11) >>

EngineInit ==
    /\ store = Absent
    /\ log = <<>>
    /\ last = NoCall
    /\ persisted = NothingPersisted
    /\ notes \in {EngineNotes, EngineTies}
    /\ now = ClockStart
    /\ issued = {}
    /\ app = NoApp

\* the operation of a recorded call and the arguments it was given
CallOf(l) ==
    CASE l.op = "searchNotes" -> <<l.op, l.arg, l.query>>
      [] l.op = "sortNotes" -> <<l.op, l.arg, l.sortBy>>
      [] l.op = "filterNotesByStatus" -> <<l.op, l.arg, l.filter>>
      [] OTHER -> <<l.op, l.arg>>

\* History kept with a recorded call.  moved tells which parts of the
\* environment have changed since the call was made.  before is the call
\* made before it when that was the same operation with equal arguments:
\* what it returned and what had changed between the two.
Still == [clock |-> FALSE, generator |-> FALSE, store |-> FALSE]

Before(call) ==
    IF last.op /= "none" /\ CallOf(last) = CallOf(call)
    THEN IF call.op = "createNote"
         THEN [any |-> TRUE, ret |-> last.ret, moved |-> last.moved,
               uuid |-> last.uuid, at |-> last.at]
         ELSE [any |-> TRUE, ret |-> last.ret, moved |-> last.moved]
    ELSE [any |-> FALSE]

Recorded(call) == call @@ [moved |-> Still, before |-> Before(call)]

\* the clock advances between two calls
EngineTick ==
    /\ now < ClockStart + MaxTicks * TickMs
    /\ now' = now + TickMs
    /\ last' = IF last.op = "none" THEN last ELSE [last EXCEPT !.moved.clock = TRUE]
    /\ UNCHANGED <<store, log, persisted, notes, issued, app>>

\* another client of the generator takes a value
UUIDTaken ==
    \E uuid \in FreshUUIDs(issued) :
        /\ issued' = issued \cup {uuid}
        /\ last' = IF last.op = "none" THEN last
                   ELSE [last EXCEPT !.moved.generator = TRUE]
        /\ UNCHANGED <<store, log, persisted, notes, now, app>>

\* another client of the store writes or removes the entry
StoreChanged ==
    /\ store' = IF store = Absent
                THEN Present(JSONStringify(NotesToJS(notes))) ELSE Absent
    /\ last' = IF last.op = "none" THEN last ELSE [last EXCEPT !.moved.store = TRUE]
    /\ UNCHANGED <<log, persisted, notes, now, issued, app>>

\* createNote(text): the call itself uses the generator
EngineCreateNoteCall ==
    \E text \in EngineTexts, uuid \in FreshUUIDs(issued) :
        /\ last' = Recorded([op |-> "createNote", arg |-> text, uuid |-> uuid,
                             at |-> now, ret |-> createNote(text, uuid, now)])
        /\ issued' = issued \cup {uuid}
        /\ UNCHANGED <<store, log, persisted, notes, now, app>>

\* toggleNote(notes[i])
EngineToggleNoteCall ==
    \E i \in 1..Len(notes) :
        LET r == toggleNote(notes[i]) IN
        /\ last' = Recorded([op |-> "toggleNote", arg |-> notes[i], ret |-> r.ret])
        /\ notes' = [notes EXCEPT ![i] = r.note]
        /\ UNCHANGED <<store, log, persisted, now, issued, app>>

\* searchNotes(notes, query)
EngineSearchNotesCall ==
    \E query \in EngineQueries :
        /\ last' = Recorded([op |-> "searchNotes", arg |-> notes, query |-> query,
                             ret |-> searchNotes(notes, query)])
        /\ UNCHANGED <<store, log, persisted, notes, now, issued, app>>

\* sortNotes(notes, sortBy)
EngineSortNotesCall ==
    \E sortBy \in SortCriteria :
        LET r == sortNotes(notes, sortBy) IN
        /\ last' = Recorded([op |-> "sortNotes", arg |-> notes, sortBy |-> sortBy,
                             ret |-> r.ret])
        /\ notes' = r.notes
        /\ UNCHANGED <<store, log, persisted, now, issued, app>>

\* filterNotesByStatus(notes, filter)
EngineFilterNotesByStatusCall ==
    \E filter \in Filters :
        /\ last' = Recorded([op |-> "filterNotesByStatus", arg |-> notes,
                             filter |-> filter,
                             ret |-> filterNotesByStatus(notes, filter)])
        /\ UNCHANGED <<store, log, persisted, notes, now, issued, app>>

\* calculateStats(notes)
EngineCalculateStatsCall ==
    /\ last' = Recorded([op |-> "calculateStats", arg |-> notes,
                         ret |-> calculateStats(notes)])
    /\ UNCHANGED <<store, log, persisted, notes, now, issued, app>>

EngineNext ==
    \/ EngineTick
    \/ UUIDTaken
    \/ StoreChanged
    \/ EngineCreateNoteCall
    \/ EngineToggleNoteCall
    \/ EngineSearchNotesCall
    \/ EngineSortNotesCall
    \/ EngineFilterNotesByStatusCall
    \/ EngineCalculateStatsCall

EngineSpec == EngineInit /\ [][EngineNext]_vars

STORAGE_KEY_JS == "notes.v1"

\* localStorage.getItem(STORAGE_KEY) of storage.js: st is the entry under
\* 'notes.v1', and no other key of the store holds an entry
GetItemJS(st, throws) ==
    IF throws THEN Throw("StorageError")
    ELSE Return(IF STORAGE_KEY_JS = STORAGE_KEY THEN st ELSE Absent)

\* localStorage.setItem(STORAGE_KEY, text) of storage.js
SetItemJS(st, text, throws) ==
    IF throws THEN [threw |-> TRUE, err |-> "StorageError", store |-> st]
    ELSE [threw |-> FALSE,
          store |-> IF STORAGE_KEY_JS = STORAGE_KEY THEN Present(text) ELSE st]

\* localStorage.removeItem(STORAGE_KEY) of storage.js
RemoveItemJS(st, throws) ==
    IF throws THEN [threw |-> TRUE, err |-> "StorageError", store |-> st]
    ELSE [threw |-> FALSE,
          store |-> IF STORAGE_KEY_JS = STORAGE_KEY THEN Absent ELSE st]

\* the try block of loadNotes in storage.js
LoadNotesTryJS(st, throws) ==
    LET stored == GetItemJS(st, throws) IN
    IF stored.threw THEN Throw(stored.err)
    ELSE IF ~stored.ret.has \/ stored.ret.val = <<>> THEN Return(JSArr(<<>>))
    ELSE LET parsed == JSONParse(stored.ret.val)
         IN IF parsed.ok THEN Return(parsed.v) ELSE Throw("SyntaxError")

loadNotesJS(st, throws) ==
    LET body == LoadNotesTryJS(st, throws) IN
    IF body.threw
    THEN [threw |-> FALSE, ret |-> JSArr(<<>>), store |-> st,
          logged |-> <<ConsoleWarn("Failed to load notes from localStorage:", body.err)>>]
    ELSE [threw |-> FALSE, ret |-> body.ret, store |-> st, logged |-> <<>>]

saveNotesJS(st, ns, throws) ==
    LET body == SetItemJS(st, JSONStringify(NotesToJS(ns)), throws) IN
    IF body.threw
    THEN [threw |-> FALSE, store |-> body.store,
          logged |-> <<ConsoleError("Failed to save notes to localStorage:", body.err)>>]
    ELSE [threw |-> FALSE, store |-> body.store, logged |-> <<>>]

clearNotesJS(st, throws) ==
    LET body == RemoveItemJS(st, throws) IN
    IF body.threw
    THEN [threw |-> FALSE, store |-> body.store,
          logged |-> <<ConsoleError("Failed to clear notes from localStorage:", body.err)>>]
    ELSE [threw |-> FALSE, store |-> body.store, logged |-> <<>>]

createNoteJS(text, uuid, t) == MkNote(uuid, Trim(text), FALSE, ToISOString(t))

toggleNoteJS(note) ==
    [ret |-> [note EXCEPT !.done = ~note.done], note |-> note]

\* searchNotes of storage.js comparing the texts as they are written
searchNotesJSCaseSensitive(ns, query) ==
    IF Trim(query) = <<>> THEN ns
    ELSE LET searchTerm == Trim(query)
         IN SelectSeq(ns, LAMBDA n : Includes(n.text, searchTerm))

searchNotesJS(ns, query) ==
    IF Trim(query) = <<>> THEN ns
    ELSE LET searchTerm == Trim(ToLowerCase(query))
         IN SelectSeq(ns, LAMBDA n : Includes(ToLowerCase(n.text), searchTerm))

\* the comparators of sortNotes in storage.js
CompareJS(sortBy, a, b) ==
    CASE sortBy = "alphabetical" -> LocaleCompare(a.text, b.text)
      [] sortBy = "status" ->
            IF a.done = b.done THEN SortCompare(DateDiff(a, b))
            ELSE IF a.done THEN 1 ELSE -1
      [] OTHER -> SortCompare(DateDiff(a, b))

\* sorted.sort(comparator) in storage.js
ArraySortJS(xs, sortBy) ==
    LET n == Len(xs)
        order == [i \in 1..n |-> [j \in 1..n |-> CompareJS(sortBy, xs[i], xs[j])]]
        at == SortIndices(n, order)
    IN [k \in 1..n |-> xs[at[k]]]

sortNotesJS(ns, sortBy) ==
    LET sorted == ns
    IN [ret |-> ArraySortJS(sorted, sortBy), notes |-> ns]

filterNotesByStatusJS(ns, filter) ==
    CASE filter = "open" -> SelectSeq(ns, LAMBDA n : ~n.done)
      [] filter = "done" -> SelectSeq(ns, LAMBDA n : n.done)
      [] OTHER -> ns

calculateStatsJS(ns) ==
    LET total == Len(ns)
        completed == Len(SelectSeq(ns, LAMBDA n : n.done))
        pending == total - completed
    IN [total |-> total, completed |-> completed, pending |-> pending,
        completionRate |-> IF total > 0
                           THEN MathRound(FloatMul(FloatDiv(completed, total), 100))
                           ELSE 0]

(***************************************************************************)
(* The two storage modules side by side.  A state holds the store, the     *)
(* clock, the generator and a collection; one step runs one operation of   *)
(* storage.ts and the same operation of storage.js from that state with    *)
(* the same arguments, and records what each of the two returned, wrote    *)
(* to the console and left in the store.  The state moves on as            *)
(* storage.ts leaves it.                                                   *)
(***************************************************************************)
\* the entries the store may hold before a call
TwinStores ==
    {Absent} \cup {Present(p) : p \in RawPayloads}
             \cup {Present(JSONStringify(NotesToJS(ns))) : ns \in SavedSeqs}

\* the clock readings before a call
TwinClocks == {ClockStart + k * TickMs : k \in 0..MaxTicks}

\* a createdAt that is no date: the hour 25
NoDate == [T10 EXCEPT ![12] = "2", ![13] = "5"]

\* collections with a note whose createdAt is no date, which compares as
\* equal with every other note while those differ among themselves
UndatedSeqs ==
    { << MkNote(<<"1">>, <<"a">>, FALSE, T10), MkNote(<<"2">>, <<"a">>, FALSE, T11),
         MkNote(<<"3">>, <<"a">>, FALSE, NoDate), MkNote(<<"4">>, <<"a">>, done, last4) >> :
      done \in BOOLEAN, last4 \in {T11, T12} }

\* the collections handed to the Query Engine of both modules
TwinNoteSeqs ==
    NoteSeqs \cup UndatedSeqs
             \cup {StatsArray(MaxStatsLen, [i \in 1..MaxStatsLen |-> i <= c]) :
                   c \in 0..MaxStatsLen}

TwinInit ==
    /\ log = <<>>
    /\ last = NoCall
    /\ persisted = NothingPersisted
    /\ app = NoApp
    /\ \/ store \in TwinStores /\ notes = <<>> /\ now = ClockStart /\ issued = {}
       \/ store = Absent /\ notes \in TwinNoteSeqs /\ now = ClockStart /\ issued = {}
       \/ store = Absent /\ notes = <<>> /\ now \in TwinClocks
                         /\ issued \in SUBSET UUIDs

TwinLoadNotes ==
    /\ last = NoCall
    /\ \E throws \in BOOLEAN :
        LET ts == loadNotes(store, throws)
            js == loadNotesJS(store, throws)
        IN /\ last' = [op |-> "loadNotes", ts |-> ts, js |-> js]
           /\ store' = ts.store
           /\ log' = log \o ts.logged
    /\ UNCHANGED <<persisted, notes, now, issued, app>>

TwinSaveNotes ==
    /\ last = NoCall
    /\ \E ns \in SavedSeqs, throws \in BOOLEAN :
        LET ts == saveNotes(store, ns, throws)
            js == saveNotesJS(store, ns, throws)
        IN /\ last' = [op |-> "saveNotes", arg |-> ns, ts |-> ts, js |-> js]
           /\ store' = ts.store
           /\ log' = log \o ts.logged
           /\ persisted' = IF throws THEN persisted ELSE Persisted(ns)
    /\ UNCHANGED <<notes, now, issued, app>>

TwinClearNotes ==
    /\ last = NoCall
    /\ \E throws \in BOOLEAN :
        LET ts == clearNotes(store, throws)
            js == clearNotesJS(store, throws)
        IN /\ last' = [op |-> "clearNotes", ts |-> ts, js |-> js]
           /\ store' = ts.store
           /\ log' = log \o ts.logged
           /\ persisted' = IF throws THEN persisted ELSE NothingPersisted
    /\ UNCHANGED <<notes, now, issued, app>>

TwinCreateNote ==
    /\ last = NoCall
    /\ \E text \in RawTexts, uuid \in UUIDs \ issued :
        /\ last' = [op |-> "createNote", arg |-> text, uuid |-> uuid, at |-> now,
                    ts |-> createNote(text, uuid, now),
                    js |-> createNoteJS(text, uuid, now)]
        /\ issued' = issued \cup {uuid}
    /\ UNCHANGED <<store, log, persisted, notes, now, app>>

TwinToggleNote ==
    /\ last = NoCall
    /\ \E i \in 1..Len(notes) :
        last' = [op |-> "toggleNote", arg |-> notes[i],
                 ts |-> toggleNote(notes[i]), js |-> toggleNoteJS(notes[i])]
    /\ UNCHANGED <<store, log, persisted, notes, now, issued, app>>

TwinSearchNotes ==
    /\ last = NoCall
    /\ \E query \in Queries :
        last' = [op |-> "searchNotes", arg |-> notes, query |-> query,
                 ts |-> searchNotes(notes, query),
                 js |-> searchNotesJS(notes, query)]
    /\ UNCHANGED <<store, log, persisted, notes, now, issued, app>>

TwinSortNotes ==
    /\ last = NoCall
    /\ \E sortBy \in SortCriteria :
        last' = [op |-> "sortNotes", arg |-> notes, sortBy |-> sortBy,
                 ts |-> sortNotes(notes, sortBy),
                 js |-> sortNotesJS(notes, sortBy)]
    /\ UNCHANGED <<store, log, persisted, notes, now, issued, app>>

TwinFilterNotesByStatus ==
    /\ last = NoCall
    /\ \E filter \in Filters :
        last' = [op |-> "filterNotesByStatus", arg |-> notes, filter |-> filter,
                 ts |-> filterNotesByStatus(notes, filter),
                 js |-> filterNotesByStatusJS(notes, filter)]
    /\ UNCHANGED <<store, log, persisted, notes, now, issued, app>>

TwinCalculateStats ==
    /\ last = NoCall
    /\ last' = [op |-> "calculateStats", arg |-> notes,
                ts |-> calculateStats(notes), js |-> calculateStatsJS(notes)]
    /\ UNCHANGED <<store, log, persisted, notes, now, issued, app>>

TwinNext ==
    \/ TwinLoadNotes
    \/ TwinSaveNotes
    \/ TwinClearNotes
    \/ TwinCreateNote
    \/ TwinToggleNote
    \/ TwinSearchNotes
    \/ TwinSortNotes
    \/ TwinFilterNotesByStatus
    \/ TwinCalculateStats

TwinSpec == TwinInit /\ [][TwinNext]_vars

\* C21: whatever operation of the storage module is run, the JavaScript
\* version and the TypeScript version, started from the same store, clock
\* and generator with the same arguments, return the same result, leave the
\* same entry in the store and write the same entries to the console
C21_ModulesAgree ==
    last.op \in {"loadNotes", "saveNotes", "clearNotes", "createNote", "toggleNote",
                 "searchNotes", "sortNotes", "filterNotesByStatus", "calculateStats"}
        => last.js = last.ts

\* both modules searched a collection for a query written in another case
\* than the texts and found a note
C21_Witness ==
    /\ last.op = "searchNotes"
    /\ last.js = last.ts
    /\ last.js /= <<>>
    /\ last.js /= last.arg
    /\ searchNotesJSCaseSensitive(last.arg, last.query) = <<>>

(***************************************************************************)
(* What App presents: the memoised list processedNotes and the memoised    *)
(* counts stats, computed at a render from the collection, the search box, *)
(* the status filter and the sort selector.                                *)
(***************************************************************************)
\* the comparator of result.sort in processedNotes
processedCompare(sortBy, a, b) ==
    CASE sortBy = "alphabetical" -> LocaleCompare(a.text, b.text)
      [] sortBy = "status" ->
            IF a.done = b.done THEN SortCompare(DateDiff(a, b))
            ELSE IF a.done THEN 1 ELSE -1
      [] OTHER -> SortCompare(DateDiff(a, b))

\* result.sort(comparator) in processedNotes
processedSort(xs, sortBy) ==
    LET n == Len(xs)
        order == [i \in 1..n |->
                     [j \in 1..n |-> processedCompare(sortBy, xs[i], xs[j])]]
        at == SortIndices(n, order)
    IN [k \in 1..n |-> xs[at[k]]]

\* processedNotes looking for the search box's content as typed, lowered
\* but not trimmed
processedNotesUntrimmedQuery(ns, searchQuery, filter, sortBy) ==
    LET searched == IF Trim(searchQuery) /= <<>>
                    THEN LET query == ToLowerCase(searchQuery)
                         IN SelectSeq(ns, LAMBDA n : Includes(ToLowerCase(n.text), query))
                    ELSE ns
        opened == IF filter = "open" THEN SelectSeq(searched, LAMBDA n : ~n.done)
                  ELSE searched
        closed == IF filter = "done" THEN SelectSeq(opened, LAMBDA n : n.done)
                  ELSE opened
    IN processedSort(closed, sortBy)

\* let result = [...notes]; search, filter by status, result.sort(...)
processedNotes(ns, searchQuery, filter, sortBy) ==
    LET searched == IF Trim(searchQuery) /= <<>>
                    THEN LET query == Trim(ToLowerCase(searchQuery))
                         IN SelectSeq(ns, LAMBDA n : Includes(ToLowerCase(n.text), query))
                    ELSE ns
        opened == IF filter = "open" THEN SelectSeq(searched, LAMBDA n : ~n.done)
                  ELSE searched
        closed == IF filter = "done" THEN SelectSeq(opened, LAMBDA n : n.done)
                  ELSE opened
    IN processedSort(closed, sortBy)

\* const stats = useMemo(() => ({ total, completed, pending }), [notes])
stats(ns) ==
    LET total == Len(ns)
        completed == Len(SelectSeq(ns, LAMBDA n : n.done))
        pending == total - completed
    IN [total |-> total, completed |-> completed, pending |-> pending]

\* what the search box may hold: nothing, blanks, a text in another case
\* than the notes', blanks around a text, a text with a blank inside
SearchBoxes ==
    { <<>>, <<" ">>, <<"a">>, <<" ", "A">>, <<"s", " ">>, <<"S", " ", "a">>, <<"ß">> }

PresentInit ==
    /\ store = Absent
    /\ log = <<>>
    /\ last = NoCall
    /\ persisted = NothingPersisted
    /\ notes \in NoteSeqs \cup UndatedSeqs
    /\ now = ClockStart
    /\ issued = {}
    /\ app = NoApp

\* a render of App with some content of the search box, some filter and
\* some sort criterion: both memos are computed from the collection.  The
\* memos read nothing but their dependencies, so one render is followed
\* from each collection.
PresentRender ==
    \E searchQuery \in SearchBoxes, filter \in Filters, sortBy \in SortCriteria :
        /\ last = NoCall
        /\ last' = [op |-> "render", arg |-> notes, query |-> searchQuery,
                    filter |-> filter, sortBy |-> sortBy,
                    ret |-> processedNotes(notes, searchQuery, filter, sortBy),
                    stats |-> stats(notes)]
        /\ UNCHANGED <<store, log, persisted, notes, now, issued, app>>

PresentNext == PresentRender

PresentSpec == PresentInit /\ [][PresentNext]_vars

\* C22: the list App presents is sortNotes of filterNotesByStatus of
\* searchNotes of the collection, note for note and in the same order, and
\* the counts App presents are the total, completed and pending of
\* calculateStats of the whole collection, whatever part of it is presented
C22_PresentedByQueryEngine ==
    last.op = "render" =>
        /\ last.ret = sortNotes(filterNotesByStatus(searchNotes(last.arg, last.query),
                                                    last.filter), last.sortBy).ret
        /\ LET s == calculateStats(last.arg)
           IN last.stats = [total |-> s.total, completed |-> s.completed,
                            pending |-> s.pending]

\* App presented one note of two, found by a query with a blank in front
\* and kept by the filter, in front of counts of both notes
C22_Witness ==
    /\ last.op = "render"
    /\ Len(last.arg) = 2
    /\ Len(last.ret) = 1
    /\ last.query = <<" ", "A">>
    /\ last.filter = "done"
    /\ last.stats.total = 2
    /\ last.stats.completed = 2
    /\ last.ret = sortNotes(filterNotesByStatus(searchNotes(last.arg, last.query),
                                                last.filter), last.sortBy).ret

\* the startup load degraded: the first render's loadNotes() wrote its
\* warning, the first entry of the console
StartupLoadDegraded ==
    /\ app.phase \in {"effect", "idle"}
    /\ log /= <<>>
    /\ log[1].level = "warn"

\* no add, toggle or remove has changed the collection since startup: the
\* collection started empty and no identifier has been drawn for a note
NoUserMutation == issued = {} /\ notes = <<>>

\* C23: when the load at startup degraded to the empty sequence (the read
\* of the store threw, or the payload did not parse), the entry under
\* 'notes.v1' stays the one found at startup for as long as the user has
\* not added, toggled or removed a note
C23_DegradedLoadKeepsEntry ==
    (StartupLoadDegraded /\ NoUserMutation) => store = app.boot

\* the notes a and b compare equal under the criterion
TiedUnder(sortBy, a, b) ==
    CASE sortBy = "alphabetical" -> a.text = b.text
      [] sortBy = "status" -> a.done = b.done /\ a.createdAt = b.createdAt
      [] OTHER -> a.createdAt = b.createdAt

\* the index of the note n in xs
IndexIn(xs, n) == CHOOSE k \in 1..Len(xs) : xs[k] = n

\* C24: for every criterion, sortNotes returns a permutation of the array it
\* was given (the same length, every note exactly once), and two notes
\* that compare equal under the criterion come out in the order they had in
\* the array
C24_StablePermutation ==
    last.op = "sortNotes" =>
        /\ Len(last.ret) = Len(last.arg)
        /\ SameNotes(last.ret, last.arg)
        /\ \A i, j \in 1..Len(last.arg) :
              (i < j /\ TiedUnder(last.sortBy, last.arg[i], last.arg[j]))
                 => IndexIn(last.ret, last.arg[i]) < IndexIn(last.ret, last.arg[j])

\* sortNotes(ns, 'alphabetical') moved two notes of the same text in front
\* of the note that was first, the two in the order they had
C24_Witness ==
    /\ last.op = "sortNotes"
    /\ last.sortBy = "alphabetical"
    /\ Len(last.arg) = 3
    /\ last.arg[2].text = last.arg[3].text
    /\ last.arg[2].done /= last.arg[3].done
    /\ last.ret = <<last.arg[2], last.arg[3], last.arg[1]>>

\* C25: in an App started from an empty store, on a clock that does not go
\* backwards, the collection is ordered by createdAt descending after every
\* add, toggle and remove, and sortNotes(collection, 'date') returns the
\* collection, note for note and in the same order
C25_NewestFirstCollection ==
    app.boot = Absent =>
        /\ NewestFirst(notes)
        /\ sortNotes(notes, "date").ret = notes

\* App started from an empty store holds two notes added at two readings
\* of the clock, the later one in front, after a toggle
C25_Witness ==
    /\ app.boot = Absent
    /\ last.op = "toggle"
    /\ Len(notes) = 2
    /\ CreatedMs(notes[1]) > CreatedMs(notes[2])
    /\ sortNotes(notes, "date").ret = notes

====
